---- MODULE Spec2Model ----
(***************************************************************************)
(* KillShill: influencer-submission vetting.                               *)
(*                                                                         *)
(* The module models                                                       *)
(*   - the ID-based async auto-approval service (verification, weighted    *)
(*     score, decision, persistence),                                     *)
(*   - the payload-based synchronous service behind the submit form,       *)
(*   - the Admin Management actions, the Django-admin bulk actions and     *)
(*     the REST process endpoints,                                         *)
(*   - the Celery task wrapper with its retries,                           *)
(*   - the retrying database decorator.                                    *)
(***************************************************************************)
EXTENDS Integers, Sequences, FiniteSets, Bags, TLC

VARIABLES
    subs,          \* table influencer_submission: sequence of rows, id = index
    influencers,   \* table influencer: url -> number of rows with that url
    queue,         \* Celery queue of process_submission_auto_approval jobs
    wk,            \* per worker: the request or task it is executing
    enabled,       \* settings.ENABLE_AUTO_APPROVAL
    minFollowers,  \* settings.SUBMISSION_MIN_FOLLOWERS
    ops,           \* number of requests started so far
    cache,         \* django cache slot of one platform verifier
    last,          \* scoring run: the submission, its verification and decision
    cfg,           \* scoring run: platform under test and configured API token
    rt,            \* one wrapped call of retry_db_connection
    mgr,           \* one DatabaseConnectionManager object and its with-blocks
    aged,          \* table influencer_submission with row ages: set of rows
    cleanup,       \* the cleanup_old_rejections task
    watch,         \* table watchlist: set of rows
    wseq,          \* table watchlist: the last id handed out
    wreq,          \* per worker: the watchlist request it is executing
    calls,         \* table trade_calls, in the order of order_by('-timestamp')
    nsubs,         \* submissions as the feed reads them, in the order of order_by('-updated_at')
    reads,         \* table notification_reads: bag of (user, notification_id)
    nreq,          \* per worker: the mark-read request it is executing
    feed,          \* the last feed answered by user_notifications_api
    users,         \* table auth_user: set of rows
    sessions,      \* per session: the data the views keep in it
    areq,          \* per worker: the registration it is executing
    aresp,         \* the last request answered by a login, reset or Telegram view
    bot_token      \* settings.TELEGRAM_BOT_TOKEN

vars == <<subs, influencers, queue, wk, enabled, minFollowers, ops, cache, last, cfg, rt,
          mgr, aged, cleanup,
          watch, wseq, wreq, calls, nsubs, reads, nreq, feed,
          users, sessions, areq, aresp, bot_token>>

flowVars  == <<subs, influencers, queue, wk, enabled, minFollowers, ops>>
scoreVars == <<cache, last, cfg>>
watchVars == <<watch, wseq, wreq>>
notifyVars == <<calls, nsubs, reads, nreq, feed>>
authVars == <<users, sessions, areq, aresp, bot_token>>
cleanVars == <<aged, cleanup>>

\* what the steps of one part leave alone
notFlow  == <<scoreVars, rt, mgr, watchVars, notifyVars, authVars, cleanVars>>
notScore == <<flowVars, rt, mgr, watchVars, notifyVars, authVars, cleanVars>>
notRetry == <<flowVars, scoreVars, mgr, watchVars, notifyVars, authVars, cleanVars>>
notManager == <<flowVars, scoreVars, rt, watchVars, notifyVars, authVars, cleanVars>>
notWatch == <<flowVars, scoreVars, rt, mgr, notifyVars, authVars, cleanVars>>
notNotify == <<flowVars, scoreVars, rt, mgr, wseq, wreq, authVars, cleanVars>>
notAuth == <<flowVars, scoreVars, rt, mgr, watchVars, notifyVars, cleanVars>>
notClean == <<flowVars, scoreVars, rt, mgr, watchVars, notifyVars, authVars>>

(***************************************************************************)
(* Python values                                                           *)
(***************************************************************************)
\* Optional[int] = None
None == -1

\* Python truthiness of an Optional[int]: None and 0 are falsy
truthy(x) == x # None /\ x # 0

Min(a, b) == IF a <= b THEN a ELSE b
Max(a, b) == IF a >= b THEN a ELSE b
Abs(a)    == IF a >= 0 THEN a ELSE 0 - a

\* str.lower() on a name, a sequence of characters
lower(s) == [i \in 1..Len(s) |-> IF s[i] = "C" THEN "c" ELSE IF s[i] = "K" THEN "k" ELSE s[i]]

\* Python `a in b` on strings
contains(b, a) ==
    \E i \in 0..(Len(b) - Len(a)) : \A j \in 1..Len(a) : b[i + j] = a[j]

(***************************************************************************)
(* AutoApprovalService thresholds                                          *)
(***************************************************************************)
MIN_CONFIDENCE_SCORE == 70
MIN_FOLLOWERS == 1000
\* MAX_FOLLOWER_VARIANCE = 0.3, in percent
MAX_FOLLOWER_VARIANCE_PCT == 30

(***************************************************************************)
(* platform_verifier.py                                                    *)
(***************************************************************************)
NoResult == [is_valid |-> FALSE, actual_followers |-> None, actual_name |-> <<>>,
             account_age_days |-> None, is_verified |-> FALSE, engagement_rate |-> None,
             recent_activity |-> TRUE, confidence_score |-> 0]

\* BasePlatformVerifier.calculate_confidence_score; engagement_rate is in tenths
calculate_confidence_score(result, follower_count) ==
    LET a == result.actual_followers
        s == follower_count
        d == Abs(a - s)
        m == Max(a, s)
        followerPart ==
            IF truthy(a) /\ truthy(s)
            THEN IF d * 10 <= m THEN 25
                 ELSE IF d * 10 <= 2 * m THEN 15
                 ELSE IF d * 10 <= 5 * m THEN 5
                 ELSE 0
            ELSE 0
        agePart ==
            IF truthy(result.account_age_days)
            THEN IF result.account_age_days > 365 THEN 10
                 ELSE IF result.account_age_days > 180 THEN 5 ELSE 0
            ELSE 0
        engPart ==
            IF truthy(result.engagement_rate)
            THEN IF result.engagement_rate > 30 THEN 10
                 ELSE IF result.engagement_rate > 10 THEN 5 ELSE 0
            ELSE 0
        score == (IF result.is_valid THEN 30 ELSE 0) + followerPart
                 + (IF result.is_verified THEN 15 ELSE 0)
                 + (IF result.recent_activity THEN 10 ELSE 0)
                 + agePart + engPart
    IN Min(score, 100)

\* the keys of PlatformVerificationService.verifiers
Verifiers == {"Twitter", "Telegram", "YouTube", "TikTok"}

\* A profile URL: whether the verifier's patterns extract a username from it, and
\* whether it contains a link-shortener marker
URLs == {[matches |-> TRUE, suspicious |-> FALSE],
         [matches |-> TRUE, suspicious |-> TRUE],
         [matches |-> FALSE, suspicious |-> FALSE]}

extract_username_from_url(url) == url.matches

\* What the third party answers for the profile: status "ok" (HTTP 200 with data),
\* "missing" (non-200 or no such account) or "error" (the call raises)
withScore(r, follower_count) ==
    [r EXCEPT !.confidence_score = calculate_confidence_score(r, follower_count)]

\* TwitterVerifier._verify_with_api_v2 / _verify_with_scraping
verify_twitter(ext, follower_count, token) ==
    IF ext.status # "ok" THEN NoResult
    ELSE IF token
    THEN withScore([NoResult EXCEPT !.is_valid = TRUE,
                        !.actual_followers = IF ext.followers = None THEN 0 ELSE ext.followers,
                        !.actual_name = ext.name,
                        !.account_age_days = ext.age,
                        !.is_verified = ext.verified], follower_count)
    ELSE [NoResult EXCEPT !.is_valid = TRUE, !.confidence_score = 50]

\* TelegramVerifier._verify_with_bot_api / _verify_with_web_preview
verify_telegram(ext, follower_count, token) ==
    IF ext.status # "ok" THEN NoResult
    ELSE IF token
    THEN withScore([NoResult EXCEPT !.is_valid = TRUE,
                        !.actual_followers = ext.followers,
                        !.actual_name = ext.name], follower_count)
    ELSE [NoResult EXCEPT !.is_valid = TRUE, !.confidence_score = 40]

\* YouTubeVerifier._verify_with_api / _verify_with_scraping
verify_youtube(ext, follower_count, token) ==
    IF ext.status # "ok" THEN NoResult
    ELSE IF token
    THEN withScore([NoResult EXCEPT !.is_valid = TRUE,
                        !.actual_followers = ext.followers,
                        !.actual_name = ext.name], follower_count)
    ELSE [NoResult EXCEPT !.is_valid = TRUE, !.confidence_score = 30]

\* TikTokVerifier.verify on a successful apify result: followers default to 0
verify_tiktok(ext, follower_count) ==
    IF ext.status # "ok" THEN NoResult
    ELSE withScore([NoResult EXCEPT !.is_valid = TRUE,
                        !.actual_followers = IF ext.followers = None THEN 0 ELSE ext.followers,
                        !.actual_name = ext.name,
                        !.is_verified = ext.verified], follower_count)

\* One verifier's verify() past the cache lookup: the result, and whether it is
\* stored in the cache (an exception is answered without caching; TikTok caches
\* only a successful result)
verify_fresh(platform, ext, follower_count, token) ==
    IF ext.status = "error" THEN [result |-> NoResult, store |-> FALSE]
    ELSE IF platform = "Twitter"
    THEN [result |-> verify_twitter(ext, follower_count, token), store |-> TRUE]
    ELSE IF platform = "Telegram"
    THEN [result |-> verify_telegram(ext, follower_count, token), store |-> TRUE]
    ELSE IF platform = "YouTube"
    THEN [result |-> verify_youtube(ext, follower_count, token), store |-> TRUE]
    ELSE [result |-> verify_tiktok(ext, follower_count), store |-> ext.status = "ok"]

\* cache slot value when nothing is cached
NoCache == [hit |-> FALSE, result |-> NoResult]

\* PlatformVerificationService.verify_platform with the verifier's verify():
\* the verifier is looked up by the platform string as stored, then the URL is
\* parsed, then the cache is read, then the third party is called
verify_platform(platform, url, follower_count, ext, token, cached) ==
    IF platform \notin Verifiers THEN [result |-> NoResult, store |-> FALSE]
    ELSE IF ~extract_username_from_url(url) THEN [result |-> NoResult, store |-> FALSE]
    ELSE IF cached.hit THEN [result |-> cached.result, store |-> FALSE]
    ELSE verify_fresh(platform, ext, follower_count, token)

(***************************************************************************)
(* auto_approval.py: AutoApprovalService, scoring and decision             *)
(***************************************************************************)
\* _calculate_follower_accuracy_score
calculate_follower_accuracy_score(follower_count, verification) ==
    LET actual == verification.actual_followers
        submitted == follower_count
        d == Abs(actual - submitted)
        m == Max(actual, submitted)
    IN IF ~truthy(actual) \/ ~truthy(submitted) THEN 30
       ELSE IF actual = 0 \/ submitted = 0 THEN 0
       ELSE IF d * 100 <= 5 * m THEN 100
       ELSE IF d * 100 <= 10 * m THEN 80
       ELSE IF d * 100 <= 20 * m THEN 60
       ELSE IF d * 100 <= 30 * m THEN 40
       ELSE IF d * 100 <= 50 * m THEN 20
       ELSE 0

\* variant for C21: every account age scores the neutral 50
calculate_account_age_score_neutral(verification) == 50

\* _calculate_account_age_score
calculate_account_age_score(verification) ==
    LET age_days == verification.account_age_days
    IN IF ~truthy(age_days) THEN 50
       ELSE IF age_days >= 730 THEN 100
       ELSE IF age_days >= 365 THEN 80
       ELSE IF age_days >= 180 THEN 60
       ELSE IF age_days >= 90 THEN 40
       ELSE IF age_days >= 30 THEN 20
       ELSE 0

\* _calculate_engagement_score; rates in tenths
calculate_engagement_score(verification) ==
    LET rate == verification.engagement_rate
    IN IF ~truthy(rate) THEN 50
       ELSE IF rate >= 50 THEN 100
       ELSE IF rate >= 30 THEN 80
       ELSE IF rate >= 15 THEN 60
       ELSE IF rate >= 5 THEN 40
       ELSE 20

\* _is_suspicious_url
is_suspicious_url(url) == url.suspicious

\* _has_naming_inconsistencies
has_naming_inconsistencies(channel_name, verification) ==
    IF verification.actual_name = <<>> \/ channel_name = <<>> THEN FALSE
    ELSE LET actual_lower == lower(verification.actual_name)
             submitted_lower == lower(channel_name)
         IN ~(contains(submitted_lower, actual_lower) \/ contains(actual_lower, submitted_lower))

\* _apply_risk_penalties: the penalties, in points
risk_penalties(submission, verification, recent_submissions) ==
    (IF recent_submissions > 3 THEN 20 ELSE 0)
    + (IF is_suspicious_url(submission.url) THEN 15 ELSE 0)
    + (IF has_naming_inconsistencies(submission.channel_name, verification) THEN 10 ELSE 0)
    + (IF ~verification.is_valid THEN 30 ELSE 0)

\* _calculate_approval_score. The weights 0.4/0.25/0.15/0.1/0.1 are applied in
\* hundredths; int() truncates the non-negative total.
calculate_approval_score(submission, verification, recent_submissions) ==
    LET verification_score == IF verification.is_valid THEN verification.confidence_score ELSE 0
        follower_score == calculate_follower_accuracy_score(submission.follower_count, verification)
        age_score == calculate_account_age_score(verification)
        platform_verification_score == IF verification.is_verified THEN 100 ELSE 50
        engagement_score == calculate_engagement_score(verification)
        total100 == 40 * verification_score + 25 * follower_score + 15 * age_score
                    + 10 * platform_verification_score + 10 * engagement_score
        penalised == Max(total100 - 100 * risk_penalties(submission, verification, recent_submissions), 0)
    IN Min(penalised \div 100, 100)

\* platform_checks in _should_auto_approve: the floors, keyed as in the source
platform_check(platform, verification) ==
    IF platform = "Twitter" THEN verification.confidence_score >= 60
    ELSE IF platform = "Telegram" THEN verification.confidence_score >= 50
    ELSE IF platform = "YouTube" THEN verification.confidence_score >= 65
    ELSE IF platform = "TikTok" THEN verification.confidence_score >= 60
    ELSE TRUE

\* variant for C5: the decision without the MIN_FOLLOWERS floor
should_auto_approve_no_follower_floor(submission, verification, approval_score) ==
    /\ verification.is_valid
    /\ approval_score >= MIN_CONFIDENCE_SCORE
    /\ ~(truthy(verification.actual_followers) /\ truthy(submission.follower_count)
          /\ Abs(verification.actual_followers - submission.follower_count) * 100
                > MAX_FOLLOWER_VARIANCE_PCT * submission.follower_count)
    /\ platform_check(submission.platform, verification)

\* _should_auto_approve
should_auto_approve(submission, verification, approval_score) ==
    LET actual == verification.actual_followers
        submitted == submission.follower_count
    IN /\ verification.is_valid
       /\ approval_score >= MIN_CONFIDENCE_SCORE
       /\ ~(truthy(actual) /\ actual < MIN_FOLLOWERS)
       /\ ~(/\ truthy(actual) /\ truthy(submitted) /\ submitted > 0
            /\ Abs(actual - submitted) * 100 > MAX_FOLLOWER_VARIANCE_PCT * submitted)
       /\ platform_check(submission.platform, verification)

(***************************************************************************)
(* Scoring runs: one platform verifier with its cache slot, and            *)
(* submissions of one profile processed one after the other                *)
(***************************************************************************)
\* platform strings as stored: the verifier keys and PLATFORM_CHOICES
Platforms == {"Twitter", "twitter", "Telegram", "telegram",
              "YouTube", "youtube", "TikTok", "tiktok"}

FollowerCounts == {0, 500, 5000, 7000}
ChannelNames == {<<"c", "k">>, <<"x">>}
ActualNames == {<<>>, <<"C", "K">>}
AccountAges == {None, 180, 800}

\* answers of the third party
Externals ==
    [status : {"ok"}, followers : {None, 500, 5000, 7000}, name : ActualNames,
     age : AccountAges, verified : BOOLEAN]
    \cup [status : {"missing", "error"}, followers : {None}, name : {<<>>},
          age : {None}, verified : {FALSE}]

NoRun == [done |-> FALSE, follower_count |-> 0, ver |-> NoResult, score |-> 0,
          approved |-> FALSE, status |-> "pending"]

\* _update_submission_results: the status it leaves on the submission
decided_status(approval_score, should_approve) ==
    IF should_approve THEN "approved"
    ELSE IF approval_score < 40 THEN "rejected"
    ELSE "pending"

ScoreIdle ==
    /\ cache = NoCache
    /\ last = NoRun
    /\ cfg = [platform |-> "Twitter", token |-> TRUE]

ScoreInit ==
    /\ cache = NoCache
    /\ last = NoRun
    /\ cfg \in [platform : Platforms, token : BOOLEAN]

\* process_submission steps 1-4 on a pending submission of the platform under
\* test; the third party is called only when the verifier is found, the URL
\* parses and the cache misses
ScoreOutcome(submission, v, recent_submissions) ==
    LET approval_score == calculate_approval_score(submission, v.result, recent_submissions)
        should_approve == should_auto_approve(submission, v.result, approval_score)
    IN /\ last' = [done |-> TRUE, follower_count |-> submission.follower_count,
                   ver |-> v.result, score |-> approval_score, approved |-> should_approve,
                   status |-> decided_status(approval_score, should_approve)]
       /\ cache' = IF v.store THEN [hit |-> TRUE, result |-> v.result] ELSE cache
       /\ cfg' = cfg

CallsThirdParty(url) ==
    cfg.platform \in Verifiers /\ extract_username_from_url(url) /\ ~cache.hit

ScoreRunFresh ==
    /\ ~last.done
    /\ \E follower_count \in FollowerCounts, channel_name \in ChannelNames, url \in URLs,
          ext \in Externals, recent_submissions \in {1, 4} :
        LET submission == [platform |-> cfg.platform, url |-> url,
                           follower_count |-> follower_count, channel_name |-> channel_name]
        IN /\ CallsThirdParty(url)
           /\ ScoreOutcome(submission,
                  verify_platform(cfg.platform, url, follower_count, ext, cfg.token, cache),
                  recent_submissions)

ScoreRunCached ==
    /\ ~last.done
    /\ \E follower_count \in FollowerCounts, channel_name \in ChannelNames, url \in URLs,
          recent_submissions \in {1, 4} :
        LET submission == [platform |-> cfg.platform, url |-> url,
                           follower_count |-> follower_count, channel_name |-> channel_name]
            unused == [status |-> "error", followers |-> None, name |-> <<>>,
                       age |-> None, verified |-> FALSE]
        IN /\ ~CallsThirdParty(url)
           /\ ScoreOutcome(submission,
                  verify_platform(cfg.platform, url, follower_count, unused, cfg.token, cache),
                  recent_submissions)

\* process_submission returns
ScoreReturn ==
    /\ last.done
    /\ last' = NoRun
    /\ UNCHANGED <<cache, cfg>>

\* the cache entry times out after 3600 s
CacheExpire ==
    /\ ~last.done
    /\ cache.hit
    /\ cache' = NoCache
    /\ UNCHANGED <<last, cfg>>

NextScore ==
    \/ ScoreRunFresh /\ UNCHANGED notScore
    \/ ScoreRunCached /\ UNCHANGED notScore
    \/ ScoreReturn /\ UNCHANGED notScore
    \/ CacheExpire /\ UNCHANGED notScore

\* Verification results handed to the scoring as they are (a verifier stub in
\* place of the third party): valid or not, with or without an engagement rate
GivenResults ==
    [is_valid : BOOLEAN, actual_followers : {100, 5000}, actual_name : ActualNames,
     account_age_days : {None, 800}, is_verified : BOOLEAN, engagement_rate : {None, 40},
     recent_activity : {TRUE}, confidence_score : {50, 80}]

\* process_submission steps 2-4 on a pending Twitter submission for which
\* verify_platform returned `verification`
ScoreGiven(verification, follower_count, channel_name, url, recent_submissions) ==
    /\ ~last.done
    /\ cfg.platform = "Twitter"
    /\ ScoreOutcome([platform |-> cfg.platform, url |-> url,
                     follower_count |-> follower_count, channel_name |-> channel_name],
                    [result |-> verification, store |-> FALSE], recent_submissions)

NextGiven ==
    \/ (\E verification \in GivenResults, follower_count \in FollowerCounts,
           channel_name \in ChannelNames, url \in URLs, recent_submissions \in {1, 4} :
           ScoreGiven(verification, follower_count, channel_name, url, recent_submissions))
       /\ UNCHANGED notScore
    \/ ScoreReturn /\ UNCHANGED notScore

\* canonical name of a stored platform string
PlatformName(p) ==
    IF p \in {"Twitter", "twitter"} THEN "twitter"
    ELSE IF p \in {"Telegram", "telegram"} THEN "telegram"
    ELSE IF p \in {"YouTube", "youtube"} THEN "youtube"
    ELSE "tiktok"

\* C5: the async service approves only if the verification is valid, the score
\* is at least 70, the actual follower count (when known) is at least 1000, the
\* follower variance (when both counts are known) is at most 30%, and the
\* verifier confidence meets the floor of the platform, whatever its casing.
C5_ApprovedOnlyIf ==
    (last.done /\ last.approved) =>
        /\ last.ver.is_valid
        /\ last.score >= 70
        /\ (last.ver.actual_followers # None => last.ver.actual_followers >= 1000)
        /\ (last.ver.actual_followers # None /\ last.follower_count > 0 =>
                Abs(last.ver.actual_followers - last.follower_count) * 100
                    <= 30 * last.follower_count)
        /\ (PlatformName(cfg.platform) = "twitter" => last.ver.confidence_score >= 60)
        /\ (PlatformName(cfg.platform) = "telegram" => last.ver.confidence_score >= 50)
        /\ (PlatformName(cfg.platform) = "youtube" => last.ver.confidence_score >= 65)
        /\ (PlatformName(cfg.platform) = "tiktok" => last.ver.confidence_score >= 60)

\* an approval by the async service, decided on a cached verification
C5_Witness ==
    last.done /\ last.approved /\ cache.hit /\ cache.result = last.ver

(***************************************************************************)
(* The submission workflow                                                 *)
(***************************************************************************)
MaxSubs == 2
MaxOps == 3

Workers == {"w1", "w2"}
Users == {"alice", "staff1"}

\* request.user.is_staff
is_staff(user) == user = "staff1"

\* profile URLs submitted in the workflow
FlowURLs == {[matches |-> TRUE, suspicious |-> FALSE], [matches |-> TRUE, suspicious |-> TRUE]}

\* InfluencerSubmission row; reviewed_by "" is NULL
NoRow == [status |-> "pending", auto_approved |-> FALSE, approval_score |-> 0,
          reviewed_by |-> "", rejection_reason |-> "", platform |-> "", url |-> [matches |-> FALSE, suspicious |-> FALSE],
          follower_count |-> 0, mock_data |-> FALSE, channel_name |-> <<>>,
          submitted_by |-> ""]

(***************************************************************************)
(* auto_approval_enhanced.py: EnhancedAutoApprovalService                  *)
(***************************************************************************)
SUPPORTED_PLATFORMS == {"tiktok", "twitter", "youtube", "telegram"}

\* str.lower on a platform name
platform_lower(p) ==
    IF p = "Twitter" THEN "twitter"
    ELSE IF p = "Telegram" THEN "telegram"
    ELSE IF p = "YouTube" THEN "youtube"
    ELSE IF p = "TikTok" THEN "tiktok"
    ELSE p

\* process_submission, lines 56-66: the early error returns
valid_submission(payload, user) ==
    /\ user # ""
    /\ payload.channel_name # <<>>
    /\ platform_lower(payload.platform) \in SUPPORTED_PLATFORMS

\* _coerce_int on a raw payload value: None and '' give 0, text that is no
\* number gives 0, a number is truncated
coerce_int(value) ==
    IF value.kind \in {"none", "empty", "text"} THEN 0 ELSE value.n

\* _check_platform_criteria: approved or not (min_posts is 0)
check_platform_criteria(platform, followers, posts_count, min_followers) ==
    /\ platform \in SUPPORTED_PLATFORMS
    /\ ~(followers < min_followers)
    /\ ~(posts_count < 0)

\* _calculate_score, as the IntegerField approval_score stores it
calculate_score(platform, followers, posts_count, verified) ==
    LET base10 == IF platform = "youtube" THEN 600
                  ELSE IF platform = "twitter" THEN 550 ELSE 500
        followerPart == IF followers >= 100000 THEN 30
                        ELSE IF followers >= 50000 THEN 20
                        ELSE IF followers >= 25000 THEN 15
                        ELSE IF followers >= 10000 THEN 10 ELSE 0
        postPart == IF posts_count >= 100 THEN 10
                    ELSE IF posts_count >= 50 THEN 5 ELSE 0
    IN Min(base10 \div 10 + followerPart + (IF verified THEN 10 ELSE 0) + postPart, 100)

\* variant for C3: trust decided by the mock flag alone
verification_confident_mock_only(followers, is_mock_data) == ~is_mock_data

\* process_submission, lines 85-87: whether the verification is trusted
verification_confident(followers, is_mock_data) == followers > 0 /\ ~is_mock_data

\* process_submission: the status given to the new row
submission_status(platform, followers, posts_count, is_mock_data, min_followers) ==
    IF ~verification_confident(followers, is_mock_data) THEN "pending"
    ELSE IF check_platform_criteria(platform, followers, posts_count, min_followers)
    THEN "approved" ELSE "rejected"

\* process_submission: the row handed to InfluencerSubmission.objects.create
new_submission(payload, user, min_followers) ==
    LET platform == platform_lower(payload.platform)
        followers == coerce_int(payload.followers)
        posts_count == coerce_int(payload.posts_count)
        status == submission_status(platform, followers, posts_count,
                                    payload.mock_data, min_followers)
    IN [status |-> status,
        auto_approved |-> status = "approved",
        approval_score |-> calculate_score(platform, followers, posts_count, payload.verified),
        reviewed_by |-> "",
        rejection_reason |-> IF status = "rejected" THEN "requires_followers"
                             ELSE IF status = "pending" THEN "manual_review" ELSE "",
        platform |-> platform,
        url |-> payload.url,
        follower_count |-> followers,
        mock_data |-> payload.mock_data,
        channel_name |-> payload.channel_name,
        submitted_by |-> user]

(***************************************************************************)
(* Workers: web requests, admin requests and Celery tasks in progress      *)
(***************************************************************************)
\* @shared_task(max_retries=3)
max_retries == 3

IdleWk == [op |-> "idle", pc |-> "idle", user |-> "", sid |-> 0, row |-> NoRow,
           score |-> 0, approve |-> FALSE, retries |-> 0, todo |-> {}]

SubIds == 1..Len(subs)

Start(w, op, pc, user, sid) ==
    [IdleWk EXCEPT !.op = op, !.pc = pc, !.user = user, !.sid = sid]

\* variant for C26: the signal without the ENABLE_AUTO_APPROVAL test
signal_jobs_flag_ignored(sid, row, created, broker_up) ==
    IF created /\ row.status = "pending" /\ broker_up
    THEN <<[sid |-> sid, retries |-> 0]>> ELSE <<>>

\* trigger_auto_approval (post_save): the jobs a save adds to the queue;
\* apply_async may fail, which is logged only
signal_jobs(sid, row, created, broker_up) ==
    IF created /\ row.status = "pending" /\ enabled /\ broker_up
    THEN <<[sid |-> sid, retries |-> 0]>> ELSE <<>>

\* payloads the submit view hands to the synchronous service
FlowPayloads ==
    [platform : {"twitter"}, followers : {[kind |-> "int", n |-> 0]},
     posts_count : {[kind |-> "int", n |-> 0]}, verified : {FALSE}, mock_data : {TRUE},
     url : {[matches |-> TRUE, suspicious |-> FALSE]}, channel_name : {<<"c", "k">>}]
    \cup
    [platform : {"tiktok"}, followers : {[kind |-> "int", n |-> 1500000]},
     posts_count : {[kind |-> "int", n |-> 150]}, verified : {TRUE}, mock_data : {TRUE},
     url : {[matches |-> TRUE, suspicious |-> FALSE]}, channel_name : {<<"c", "k">>}]
    \cup
    [platform : {"twitter"}, followers : {[kind |-> "int", n |-> 500], [kind |-> "int", n |-> 5000]},
     posts_count : {[kind |-> "int", n |-> 0]}, verified : {FALSE}, mock_data : {FALSE},
     url : FlowURLs, channel_name : {<<"c", "k">>}]

\* EnhancedAutoApprovalService.process_submission, called by
\* SubmitInfluencerView.post: a payload that fails validation is answered with
\* an error; else the row is created (or the create fails and an error is
\* answered); an approved row goes on to _add_to_influencer_database
SyncCreate(w, user, payload, db_ok, broker_up) ==
    /\ wk[w].op = "idle"
    /\ ops < MaxOps
    /\ Len(subs) < MaxSubs
    /\ ops' = ops + 1
    /\ LET row == new_submission(payload, user, minFollowers)
           sid == Len(subs) + 1
       IN IF db_ok /\ valid_submission(payload, user)
          THEN /\ subs' = Append(subs, row)
               /\ queue' = queue \o signal_jobs(sid, row, TRUE, broker_up)
               /\ wk' = [wk EXCEPT ![w] =
                           IF row.status = "approved"
                           THEN [Start(w, "sync", "add_check", user, 0) EXCEPT !.todo = {sid}]
                           ELSE IdleWk]
          ELSE UNCHANGED <<subs, queue, wk>>
    /\ UNCHANGED <<influencers, enabled, minFollowers>>

\* _add_to_influencer_database / _add_to_main_database, first half:
\* Influencer.objects.filter(url=...).first(); an exception is logged only
AddCheck(w, db_ok) ==
    /\ wk[w].pc = "add_check"
    /\ LET sid == CHOOSE i \in wk[w].todo : \A j \in wk[w].todo : i <= j
           rest == wk[w].todo \ {sid}
           existing == influencers[subs[sid].url] > 0
       IN wk' = [wk EXCEPT ![w] =
                   IF db_ok /\ ~existing
                   THEN [wk[w] EXCEPT !.pc = "add_create", !.sid = sid, !.todo = rest]
                   ELSE IF rest = {} THEN IdleWk
                   ELSE [wk[w] EXCEPT !.todo = rest]]
    /\ UNCHANGED <<subs, influencers, queue, enabled, minFollowers, ops>>

\* second half: Influencer.objects.create
AddCreate(w, db_ok) ==
    /\ wk[w].pc = "add_create"
    /\ influencers' = IF db_ok
                      THEN [influencers EXCEPT ![subs[wk[w].sid].url] = @ + 1]
                      ELSE influencers
    /\ wk' = [wk EXCEPT ![w] = IF wk[w].todo = {} THEN IdleWk
                               ELSE [wk[w] EXCEPT !.pc = "add_check", !.sid = 0]]
    /\ UNCHANGED <<subs, queue, enabled, minFollowers, ops>>

(***************************************************************************)
(* views.py: AdminManagementView (dispatch admits staff only)              *)
(***************************************************************************)
\* post, actions approve and reject: InfluencerSubmission.objects.get
AMLoad(w, user, action, sid, db_ok) ==
    /\ wk[w].op = "idle"
    /\ ops < MaxOps
    /\ is_staff(user)
    /\ action \in {"am_approve", "am_reject"}
    /\ ops' = ops + 1
    /\ wk' = [wk EXCEPT ![w] =
                IF db_ok /\ sid \in SubIds
                THEN [Start(w, action, "am_save", user, sid) EXCEPT !.row = subs[sid]]
                ELSE IdleWk]
    /\ UNCHANGED <<subs, influencers, queue, enabled, minFollowers>>

\* post, actions approve and reject: the fields set and submission.save()
AMSave(w, db_ok) ==
    /\ wk[w].pc = "am_save"
    /\ LET row == IF wk[w].op = "am_approve"
                  THEN [wk[w].row EXCEPT !.status = "approved", !.reviewed_by = wk[w].user]
                  ELSE [wk[w].row EXCEPT !.status = "rejected", !.reviewed_by = wk[w].user,
                                         !.rejection_reason = "admin_reason"]
       IN IF db_ok
          THEN /\ subs' = [subs EXCEPT ![wk[w].sid] = row]
               /\ wk' = [wk EXCEPT ![w] =
                           IF wk[w].op = "am_approve"
                           THEN [wk[w] EXCEPT !.pc = "add_check", !.row = NoRow,
                                              !.todo = {wk[w].sid}, !.sid = 0]
                           ELSE IdleWk]
          ELSE /\ wk' = [wk EXCEPT ![w] = IdleWk]
               /\ UNCHANGED subs
    /\ UNCHANGED <<influencers, queue, enabled, minFollowers, ops>>

\* post, action bulk_approve: one UPDATE of the pending rows among the ids
AMBulkApprove(user, ids) ==
    /\ ops < MaxOps
    /\ is_staff(user)
    /\ ids # {} /\ ids \subseteq SubIds
    /\ ops' = ops + 1
    /\ subs' = [i \in SubIds |->
                  IF i \in ids /\ subs[i].status = "pending"
                  THEN [subs[i] EXCEPT !.status = "approved", !.reviewed_by = user]
                  ELSE subs[i]]
    /\ UNCHANGED <<influencers, queue, wk, enabled, minFollowers>>

(***************************************************************************)
(* admin.py: InfluencerSubmissionAdmin bulk actions (staff only)           *)
(***************************************************************************)
\* approve_submissions: UPDATE of the pending rows of the selection, then
\* _add_to_main_database for every approved row of the selection
DjApprove(w, user, ids) ==
    /\ wk[w].op = "idle"
    /\ ops < MaxOps
    /\ is_staff(user)
    /\ ids # {} /\ ids \subseteq SubIds
    /\ ops' = ops + 1
    /\ subs' = [i \in SubIds |->
                  IF i \in ids /\ subs[i].status = "pending"
                  THEN [subs[i] EXCEPT !.status = "approved", !.reviewed_by = user]
                  ELSE subs[i]]
    /\ LET approved == {i \in ids : subs'[i].status = "approved"}
       IN wk' = [wk EXCEPT ![w] =
                   IF approved = {} THEN IdleWk
                   ELSE [Start(w, "dj_approve", "add_check", user, 0) EXCEPT !.todo = approved]]
    /\ UNCHANGED <<influencers, queue, enabled, minFollowers>>

\* reject_submissions: UPDATE of the pending rows of the selection
DjReject(user, ids) ==
    /\ ops < MaxOps
    /\ is_staff(user)
    /\ ids # {} /\ ids \subseteq SubIds
    /\ ops' = ops + 1
    /\ subs' = [i \in SubIds |->
                  IF i \in ids /\ subs[i].status = "pending"
                  THEN [subs[i] EXCEPT !.status = "rejected", !.reviewed_by = user,
                                       !.rejection_reason = "rejected_by_admin"]
                  ELSE subs[i]]
    /\ UNCHANGED <<influencers, queue, wk, enabled, minFollowers>>

(***************************************************************************)
(* api/views.py: the process endpoints (IsAuthenticated)                   *)
(***************************************************************************)
\* process_submission_api
ProcessSubmissionApi(user, sid) ==
    /\ ops < MaxOps
    /\ user \in Users
    /\ sid \in SubIds
    /\ subs[sid].status = "pending"
    /\ ops' = ops + 1
    /\ subs' = [subs EXCEPT ![sid] =
                  [@ EXCEPT !.status = "approved", !.auto_approved = FALSE,
                            !.reviewed_by = user, !.approval_score = 75]]
    /\ UNCHANGED <<influencers, queue, wk, enabled, minFollowers>>

\* process_auto_approvals_api
ProcessAutoApprovalsApi(user) ==
    /\ ops < MaxOps
    /\ user \in Users
    /\ ops' = ops + 1
    /\ subs' = [i \in SubIds |->
                  IF subs[i].status = "pending" /\ subs[i].approval_score >= 70
                  THEN [subs[i] EXCEPT !.status = "approved", !.auto_approved = TRUE]
                  ELSE subs[i]]
    /\ UNCHANGED <<influencers, queue, wk, enabled, minFollowers>>

(***************************************************************************)
(* auto_approval.py: AutoApprovalService.process_submission, step by step  *)
(***************************************************************************)
\* third-party answers seen in the workflow
FlowExternals ==
    {[status |-> "ok", followers |-> 5000, name |-> <<"C", "K">>, age |-> 800, verified |-> TRUE],
     [status |-> "error", followers |-> None, name |-> <<>>, age |-> None, verified |-> FALSE]}

\* _apply_risk_penalties, get_recent_submissions_count: the rows of the
\* submitter (every row of the workflow is younger than 7 days)
recent_submissions_count(submitted_by) ==
    Cardinality({i \in SubIds : subs[i].submitted_by = submitted_by})

\* get_submission and the two early returns
PSLoad(w, db_ok) ==
    /\ wk[w].pc = "ps_load"
    /\ wk' = [wk EXCEPT ![w] =
                IF ~db_ok THEN [@ EXCEPT !.pc = "ps_raised"]
                ELSE IF wk[w].sid \notin SubIds THEN [@ EXCEPT !.pc = "ps_ret_err"]
                ELSE IF subs[wk[w].sid].status # "pending" THEN [@ EXCEPT !.pc = "ps_ret_err"]
                ELSE [@ EXCEPT !.pc = "ps_decide", !.row = subs[wk[w].sid]]]
    /\ UNCHANGED <<subs, influencers, queue, enabled, minFollowers, ops>>

\* steps 1-3: _verify_platform_account, _calculate_approval_score,
\* _should_auto_approve
PSDecide(w, ext) ==
    /\ wk[w].pc = "ps_decide"
    /\ LET row == wk[w].row
           v == verify_platform(row.platform, row.url, row.follower_count, ext, TRUE, NoCache)
           approval_score == calculate_approval_score(row, v.result,
                                 recent_submissions_count(row.submitted_by))
           should_approve == should_auto_approve(row, v.result, approval_score)
       IN wk' = [wk EXCEPT ![w] = [@ EXCEPT !.pc = "ps_update", !.score = approval_score,
                                            !.approve = should_approve]]
    /\ UNCHANGED <<subs, influencers, queue, enabled, minFollowers, ops>>

\* _update_submission_results: the fields set on the loaded object
updated_row(row, approval_score, should_approve) ==
    IF should_approve
    THEN [row EXCEPT !.approval_score = approval_score, !.status = "approved",
                     !.auto_approved = TRUE]
    ELSE IF approval_score < 40
    THEN [row EXCEPT !.approval_score = approval_score, !.status = "rejected",
                     !.rejection_reason = "failed_checks"]
    ELSE [row EXCEPT !.approval_score = approval_score]

\* step 4: _update_submission_results; save() writes every field of the
\* loaded object
PSUpdate(w, db_ok) ==
    /\ wk[w].pc = "ps_update"
    /\ LET row == updated_row(wk[w].row, wk[w].score, wk[w].approve)
       IN IF db_ok
          THEN /\ subs' = [subs EXCEPT ![wk[w].sid] = row]
               /\ wk' = [wk EXCEPT ![w] =
                           [@ EXCEPT !.row = row,
                                     !.pc = IF wk[w].approve THEN "ps_check" ELSE "ps_ret_ok"]]
          ELSE /\ wk' = [wk EXCEPT ![w] = [@ EXCEPT !.row = row, !.pc = "ps_handler"]]
               /\ UNCHANGED subs
    /\ UNCHANGED <<influencers, queue, enabled, minFollowers, ops>>

\* step 5, _create_influencer_record: Influencer.objects.filter(url).first()
PSCheck(w, db_ok) ==
    /\ wk[w].pc = "ps_check"
    /\ wk' = [wk EXCEPT ![w] =
                IF ~db_ok THEN [@ EXCEPT !.pc = "ps_handler"]
                ELSE IF influencers[wk[w].row.url] > 0 THEN [@ EXCEPT !.pc = "ps_ret_ok"]
                ELSE [@ EXCEPT !.pc = "ps_create"]]
    /\ UNCHANGED <<subs, influencers, queue, enabled, minFollowers, ops>>

\* step 5, _create_influencer_record: Influencer.objects.create
PSCreate(w, db_ok) ==
    /\ wk[w].pc = "ps_create"
    /\ IF db_ok
       THEN /\ influencers' = [influencers EXCEPT ![wk[w].row.url] = @ + 1]
            /\ wk' = [wk EXCEPT ![w] = [@ EXCEPT !.pc = "ps_ret_ok"]]
       ELSE /\ wk' = [wk EXCEPT ![w] = [@ EXCEPT !.pc = "ps_handler"]]
            /\ UNCHANGED influencers
    /\ UNCHANGED <<subs, queue, enabled, minFollowers, ops>>

\* the except branch: score 0, the exception text as reason, save()
PSHandler(w, db_ok) ==
    /\ wk[w].pc = "ps_handler"
    /\ LET row == [wk[w].row EXCEPT !.approval_score = 0,
                                    !.rejection_reason = "auto_approval_failed"]
       IN IF db_ok
          THEN /\ subs' = [subs EXCEPT ![wk[w].sid] = row]
               /\ wk' = [wk EXCEPT ![w] = [@ EXCEPT !.row = row, !.pc = "ps_failed"]]
          ELSE /\ wk' = [wk EXCEPT ![w] = [@ EXCEPT !.row = row, !.pc = "ps_raised"]]
               /\ UNCHANGED subs
    /\ UNCHANGED <<influencers, queue, enabled, minFollowers, ops>>

\* how process_submission ended
PSEnded(w) == wk[w].pc \in {"ps_ret_ok", "ps_ret_err", "ps_failed", "ps_raised"}

(***************************************************************************)
(* Callers of process_submission                                           *)
(***************************************************************************)
\* admin.py manual_auto_approve: get_object_or_404, then process_submission
DirectStart(w, user, sid) ==
    /\ wk[w].op = "idle"
    /\ ops < MaxOps
    /\ is_staff(user)
    /\ sid \in SubIds
    /\ ops' = ops + 1
    /\ wk' = [wk EXCEPT ![w] = Start(w, "direct", "ps_load", user, sid)]
    /\ UNCHANGED <<subs, influencers, queue, enabled, minFollowers>>

\* the caller catches whatever process_submission raises and answers
DirectEnd(w) ==
    /\ wk[w].op = "direct"
    /\ PSEnded(w)
    /\ wk' = [wk EXCEPT ![w] = IdleWk]
    /\ UNCHANGED <<subs, influencers, queue, enabled, minFollowers, ops>>

\* admin.py trigger_auto_approval: a job for every pending row of the selection
DjTrigger(user, ids) ==
    /\ ops < MaxOps
    /\ is_staff(user)
    /\ ids # {} /\ ids \subseteq SubIds
    /\ \E i \in ids : subs[i].status = "pending"
    /\ ops' = ops + 1
    /\ LET RECURSIVE jobs(_)
           jobs(k) == IF k > Len(subs) THEN <<>>
                      ELSE (IF k \in ids /\ subs[k].status = "pending"
                            THEN <<[sid |-> k, retries |-> 0]>> ELSE <<>>) \o jobs(k + 1)
       IN queue' = queue \o jobs(1)
    /\ UNCHANGED <<subs, influencers, wk, enabled, minFollowers>>

\* tasks.py process_submission_auto_approval: a worker takes a job
TaskStart(w, k) ==
    /\ wk[w].op = "idle"
    /\ k \in 1..Len(queue)
    /\ wk' = [wk EXCEPT ![w] =
                [Start(w, "task", "ps_load", "", queue[k].sid) EXCEPT !.retries = queue[k].retries]]
    /\ queue' = SubSeq(queue, 1, k - 1) \o SubSeq(queue, k + 1, Len(queue))
    /\ UNCHANGED <<subs, influencers, enabled, minFollowers, ops>>

\* lines 34-45: the result is returned; after a success the row is read again
\* and the notification task is sent, either of which may raise
TaskReturn(w, ok) ==
    /\ wk[w].op = "task"
    /\ wk[w].pc \in {"ps_ret_ok", "ps_ret_err", "ps_failed"}
    /\ wk' = [wk EXCEPT ![w] =
                IF wk[w].pc = "ps_ret_ok" /\ ~ok THEN [@ EXCEPT !.pc = "task_exc"]
                ELSE IdleWk]
    /\ UNCHANGED <<subs, influencers, queue, enabled, minFollowers, ops>>

\* line 47: process_submission raised
TaskCatch(w) ==
    /\ wk[w].op = "task"
    /\ wk[w].pc = "ps_raised"
    /\ wk' = [wk EXCEPT ![w] = [@ EXCEPT !.pc = "task_exc"]]
    /\ UNCHANGED <<subs, influencers, queue, enabled, minFollowers, ops>>

\* lines 51-53: self.retry re-queues the job with request.retries + 1
TaskRetry(w) ==
    /\ wk[w].pc = "task_exc"
    /\ wk[w].retries < max_retries
    /\ queue' = Append(queue, [sid |-> wk[w].sid, retries |-> wk[w].retries + 1])
    /\ wk' = [wk EXCEPT ![w] = IdleWk]
    /\ UNCHANGED <<subs, influencers, enabled, minFollowers, ops>>

\* lines 56-68: the terminal marking; only DoesNotExist is caught around it
TaskFinal(w, db_ok) ==
    /\ wk[w].pc = "task_exc"
    /\ ~(wk[w].retries < max_retries)
    /\ IF db_ok
       THEN /\ subs' = IF wk[w].sid \in SubIds
                       THEN [subs EXCEPT ![wk[w].sid] =
                               [@ EXCEPT !.approval_score = 0,
                                         !.rejection_reason = "failed_after_attempts"]]
                       ELSE subs
            /\ wk' = [wk EXCEPT ![w] = [@ EXCEPT !.pc = "task_done"]]
       ELSE /\ wk' = [wk EXCEPT ![w] = [@ EXCEPT !.pc = "task_raised"]]
            /\ UNCHANGED subs
    /\ UNCHANGED <<influencers, queue, enabled, minFollowers, ops>>

\* the worker is free again
TaskEnd(w) ==
    /\ wk[w].pc \in {"task_done", "task_raised"}
    /\ wk' = [wk EXCEPT ![w] = IdleWk]
    /\ UNCHANGED <<subs, influencers, queue, enabled, minFollowers, ops>>

(***************************************************************************)
(* The workflow as a whole                                                 *)
(***************************************************************************)
\* a row already in the table when the workers start: the platform column is
\* a CharField whose choices only forms check, and the verifier table is
\* keyed by the capitalised names
StoredRow ==
    [NoRow EXCEPT !.platform = "Twitter", !.url = [matches |-> TRUE, suspicious |-> FALSE],
                  !.follower_count = 5000, !.channel_name = <<"c", "k">>,
                  !.submitted_by = "alice", !.approval_score = 55]

FlowInit ==
    /\ subs \in {<<>>, <<StoredRow>>}
    /\ influencers = [u \in FlowURLs |-> 0]
    /\ queue = <<>>
    /\ wk = [w \in Workers |-> IdleWk]
    /\ enabled \in BOOLEAN
    /\ minFollowers = MIN_FOLLOWERS
    /\ ops = 0

\* the submit view and the REST process endpoints admit every authenticated
\* user, the other requests admit staff
Next ==
    \/ (\E w \in Workers, user \in Users, payload \in FlowPayloads, db_ok \in BOOLEAN,
           broker_up \in BOOLEAN :
            SyncCreate(w, user, payload, db_ok, broker_up)) /\ UNCHANGED notFlow
    \/ (\E w \in Workers, user \in Users, action \in {"am_approve", "am_reject"},
           sid \in 1..MaxSubs, db_ok \in BOOLEAN :
            AMLoad(w, user, action, sid, db_ok)) /\ UNCHANGED notFlow
    \/ (\E user \in Users, ids \in SUBSET SubIds :
            AMBulkApprove(user, ids)) /\ UNCHANGED notFlow
    \/ (\E w \in Workers, user \in Users, ids \in SUBSET SubIds :
            DjApprove(w, user, ids)) /\ UNCHANGED notFlow
    \/ (\E user \in Users, ids \in SUBSET SubIds :
            DjReject(user, ids)) /\ UNCHANGED notFlow
    \/ (\E user \in Users, ids \in SUBSET SubIds :
            DjTrigger(user, ids)) /\ UNCHANGED notFlow
    \/ (\E w \in Workers, user \in Users, sid \in SubIds :
            DirectStart(w, user, sid)) /\ UNCHANGED notFlow
    \/ (\E user \in Users, sid \in SubIds :
            ProcessSubmissionApi(user, sid)) /\ UNCHANGED notFlow
    \/ (\E user \in Users : ProcessAutoApprovalsApi(user)) /\ UNCHANGED notFlow
    \/ (\E w \in Workers, db_ok \in BOOLEAN : AddCheck(w, db_ok)) /\ UNCHANGED notFlow
    \/ (\E w \in Workers, db_ok \in BOOLEAN : AddCreate(w, db_ok)) /\ UNCHANGED notFlow
    \/ (\E w \in Workers, db_ok \in BOOLEAN : AMSave(w, db_ok)) /\ UNCHANGED notFlow
    \/ (\E w \in Workers, db_ok \in BOOLEAN : PSLoad(w, db_ok)) /\ UNCHANGED notFlow
    \/ (\E w \in Workers, ext \in FlowExternals : PSDecide(w, ext)) /\ UNCHANGED notFlow
    \/ (\E w \in Workers, db_ok \in BOOLEAN : PSUpdate(w, db_ok)) /\ UNCHANGED notFlow
    \/ (\E w \in Workers, db_ok \in BOOLEAN : PSCheck(w, db_ok)) /\ UNCHANGED notFlow
    \/ (\E w \in Workers, db_ok \in BOOLEAN : PSCreate(w, db_ok)) /\ UNCHANGED notFlow
    \/ (\E w \in Workers, db_ok \in BOOLEAN : PSHandler(w, db_ok)) /\ UNCHANGED notFlow
    \/ (\E w \in Workers : DirectEnd(w)) /\ UNCHANGED notFlow

(***************************************************************************)
(* The Celery worker side: jobs of the queue executed against the table    *)
(***************************************************************************)
\* rows the submit view leaves pending, and a stored row
TaskRows ==
    {new_submission(payload, "alice", MIN_FOLLOWERS) :
        payload \in {q \in FlowPayloads : q.mock_data /\ ~q.url.suspicious}}
    \cup {StoredRow}

\* one or two jobs for row 1, or a job for a row that is gone
TaskInit ==
    /\ subs \in {<<row>> : row \in TaskRows}
    /\ influencers = [u \in FlowURLs |-> 0]
    /\ queue \in {<<[sid |-> 1, retries |-> 0]>>,
                  <<[sid |-> 2, retries |-> 0]>>,
                  <<[sid |-> 1, retries |-> 0], [sid |-> 1, retries |-> 0]>>}
    /\ wk = [w \in Workers |-> IdleWk]
    /\ enabled = TRUE
    /\ minFollowers = MIN_FOLLOWERS
    /\ ops = 0

NextTask ==
    \/ (\E w \in Workers, k \in 1..Len(queue) : TaskStart(w, k)) /\ UNCHANGED notFlow
    \/ (\E w \in Workers, db_ok \in BOOLEAN : PSLoad(w, db_ok)) /\ UNCHANGED notFlow
    \/ (\E w \in Workers, ext \in FlowExternals : PSDecide(w, ext)) /\ UNCHANGED notFlow
    \/ (\E w \in Workers, db_ok \in BOOLEAN : PSUpdate(w, db_ok)) /\ UNCHANGED notFlow
    \/ (\E w \in Workers, db_ok \in BOOLEAN : PSCheck(w, db_ok)) /\ UNCHANGED notFlow
    \/ (\E w \in Workers, db_ok \in BOOLEAN : PSCreate(w, db_ok)) /\ UNCHANGED notFlow
    \/ (\E w \in Workers, db_ok \in BOOLEAN : PSHandler(w, db_ok)) /\ UNCHANGED notFlow
    \/ (\E w \in Workers, ok \in BOOLEAN : TaskReturn(w, ok)) /\ UNCHANGED notFlow
    \/ (\E w \in Workers : TaskCatch(w)) /\ UNCHANGED notFlow
    \/ (\E w \in Workers : TaskRetry(w)) /\ UNCHANGED notFlow
    \/ (\E w \in Workers, db_ok \in BOOLEAN : TaskFinal(w, db_ok)) /\ UNCHANGED notFlow
    \/ (\E w \in Workers : TaskEnd(w)) /\ UNCHANGED notFlow

(***************************************************************************)
(* The synchronous service on its own, under any configured threshold      *)
(***************************************************************************)
Thresholds == {0, MIN_FOLLOWERS}

\* payloads a caller can hand to process_submission
SyncPayloads ==
    [platform : {"TikTok", "instagram"},
     followers : {[kind |-> "text", n |-> 0], [kind |-> "int", n |-> 0],
                  [kind |-> "int", n |-> 500], [kind |-> "int", n |-> 5000]},
     posts_count : {[kind |-> "int", n |-> 0]}, verified : {FALSE}, mock_data : BOOLEAN,
     url : {[matches |-> TRUE, suspicious |-> FALSE]}, channel_name : {<<"c", "k">>, <<>>}]

SyncInit ==
    /\ subs = <<>>
    /\ influencers = [u \in FlowURLs |-> 0]
    /\ queue = <<>>
    /\ wk = [w \in Workers |-> IdleWk]
    /\ enabled \in BOOLEAN
    /\ minFollowers \in Thresholds
    /\ ops = 0

NextSync ==
    \/ (\E w \in Workers, user \in {"alice", ""}, payload \in SyncPayloads,
           db_ok \in BOOLEAN, broker_up \in BOOLEAN :
            SyncCreate(w, user, payload, db_ok, broker_up)) /\ UNCHANGED notFlow
    \/ (\E w \in Workers, db_ok \in BOOLEAN : AddCheck(w, db_ok)) /\ UNCHANGED notFlow
    \/ (\E w \in Workers, db_ok \in BOOLEAN : AddCreate(w, db_ok)) /\ UNCHANGED notFlow

(***************************************************************************)
(* database_utils.py: retry_db_connection                                  *)
(***************************************************************************)
\* the fragments retry_db_connection looks for in the lowered message
ssl_errors ==
    {"ssl connection has been closed unexpectedly", "connection to server", "ssl error",
     "server closed the connection unexpectedly", "connection timed out"}

\* what a call of the wrapped operation does: it returns, or raises an
\* OperationalError with one of these messages, or raises another exception
Messages == ssl_errors \cup {"deadlock detected"}

CallOutcomes ==
    {[kind |-> "ok", text |-> ""], [kind |-> "ValueError", text |-> "bad value"]}
    \cup [kind : {"OperationalError"}, text : Messages]

\* a local variable of wrapper that no statement has assigned yet
Unbound == -2

MaxRetriesArgs == {1, 2, 3}
DelayArgs == {1, 2, 5}
BackoffArgs == {2, 3}

\* a decorated function is called: wrapper starts with retries = 0; delay is
\* assigned in wrapper (delay *= backoff), so it is a local of wrapper and the
\* decorator's argument of that name is not visible there
RetryEnter(max, d, b) ==
    /\ rt.pc = "idle"
    /\ rt' = [pc |-> "loop", max_retries |-> max, delay_arg |-> d, backoff |-> b,
              retries |-> 0, calls |-> 0, closes |-> 0, sleeps |-> <<>>,
              delay |-> Unbound, exc |-> ""]

\* one turn of the while loop: the call and its except clauses
RetryCall(outcome) ==
    /\ rt.pc = "loop"
    /\ rt' =
         IF ~(rt.retries < rt.max_retries) THEN [rt EXCEPT !.pc = "returned_none"]
         ELSE LET r == [rt EXCEPT !.calls = @ + 1]
              IN IF outcome.kind = "ok" THEN [r EXCEPT !.pc = "returned"]
                 ELSE IF outcome.kind = "OperationalError" /\ outcome.text \in ssl_errors
                 THEN IF r.retries + 1 < r.max_retries
                      THEN \* the warning's f-string reads delay
                           IF r.delay = Unbound
                           THEN [r EXCEPT !.retries = @ + 1, !.pc = "raised",
                                          !.exc = "UnboundLocalError"]
                           ELSE [r EXCEPT !.retries = @ + 1, !.closes = @ + 1,
                                          !.sleeps = Append(@, r.delay),
                                          !.delay = r.delay * r.backoff]
                      ELSE [r EXCEPT !.retries = @ + 1, !.pc = "raised", !.exc = outcome.text]
                 ELSE [r EXCEPT !.pc = "raised", !.exc = outcome.text]

\* wrapper has returned or raised
RetryExit ==
    /\ rt.pc \in {"returned", "returned_none", "raised"}
    /\ rt' = [pc |-> "idle"]

NextRetry ==
    \/ (\E max \in MaxRetriesArgs, d \in DelayArgs, b \in BackoffArgs : RetryEnter(max, d, b))
            /\ UNCHANGED notRetry
    \/ (\E outcome \in CallOutcomes : RetryCall(outcome)) /\ UNCHANGED notRetry
    \/ RetryExit /\ UNCHANGED notRetry

(***************************************************************************)
(* database_utils.py: DatabaseConnectionManager                            *)
(***************************************************************************)
\* the fragments __exit__ looks for in the lowered message
manager_ssl_errors ==
    {"ssl connection has been closed unexpectedly", "connection to server", "ssl error"}

\* with-blocks run on one manager object
MaxBlocks == 3

NoManager == [pc |-> "none", max_retries |-> 0, retries |-> 0, blocks |-> 0,
              kind |-> "", exc |-> "", matched |-> FALSE, suppressed |-> FALSE]

\* DatabaseConnectionManager(max_retries) and __enter__, or __enter__ of a
\* manager used before; ensure_connection's connection.connect() may raise,
\* and then the block is not run
ManagerEnter(max, connect_ok) ==
    /\ mgr.pc \in {"none", "exited"}
    /\ mgr.blocks < MaxBlocks
    /\ LET m == IF mgr.pc = "none" THEN [NoManager EXCEPT !.max_retries = max] ELSE mgr
       IN mgr' = [m EXCEPT !.pc = IF connect_ok THEN "body" ELSE "raised",
                           !.blocks = @ + 1]

\* __exit__ with what the block did: an OperationalError whose message holds
\* one of the fragments counts as a retry and, within the budget, closes the
\* connection and is suppressed; anything else propagates
ManagerExit(outcome) ==
    /\ mgr.pc = "body"
    /\ LET matched == outcome.kind = "OperationalError" /\ outcome.text \in manager_ssl_errors
           retries == IF matched THEN mgr.retries + 1 ELSE mgr.retries
       IN mgr' = [mgr EXCEPT !.pc = "exited", !.retries = retries,
                             !.kind = outcome.kind, !.exc = outcome.text,
                             !.matched = matched,
                             !.suppressed = matched /\ retries < mgr.max_retries]

\* the manager object goes out of use
ManagerDrop ==
    /\ mgr.pc \in {"exited", "raised"}
    /\ mgr' = NoManager

ManagerIdle == mgr = NoManager

NextManager ==
    \/ (\E max \in MaxRetriesArgs, connect_ok \in BOOLEAN : ManagerEnter(max, connect_ok))
            /\ UNCHANGED notManager
    \/ (\E outcome \in CallOutcomes : ManagerExit(outcome)) /\ UNCHANGED notManager
    \/ ManagerDrop /\ UNCHANGED notManager

(***************************************************************************)
(* tasks.py: cleanup_old_rejections                                        *)
(***************************************************************************)
\* timedelta(days=90)
CLEANUP_DAYS == 90

\* ages in days of created_at and updated_at when the task runs
AgeDays == {0, CLEANUP_DAYS, CLEANUP_DAYS + 1, 200}

\* rows of the table: updated_at (auto_now) is never before created_at
AgedRows(id) ==
    {r \in [id : {id}, status : {"pending", "approved", "rejected"},
            created : AgeDays, updated : AgeDays] : r.updated <= r.created}

IdleCleanup == [pc |-> "idle", count |-> 0, deleted |-> {}, returned |-> 0]

\* variant for C30: the filter on the age alone
old_rejections_any_status(rows) == {r \in rows : r.updated > CLEANUP_DAYS}

\* InfluencerSubmission.objects.filter(status='rejected', updated_at__lt=cutoff_date)
old_rejections(rows) ==
    {r \in rows : r.status = "rejected" /\ r.updated > CLEANUP_DAYS}

\* the task up to `if count > 0`: the queryset is counted
CleanupCount ==
    /\ cleanup.pc = "idle"
    /\ LET count == Cardinality(old_rejections(aged))
       IN cleanup' = IF count > 0
                     THEN [IdleCleanup EXCEPT !.pc = "delete", !.count = count]
                     ELSE [IdleCleanup EXCEPT !.pc = "done"]
    /\ UNCHANGED aged

\* old_rejections.delete(): one DELETE with the filter as it matches now
CleanupDelete ==
    /\ cleanup.pc = "delete"
    /\ aged' = aged \ old_rejections(aged)
    /\ cleanup' = [cleanup EXCEPT !.pc = "done", !.returned = cleanup.count,
                                  !.deleted = old_rejections(aged)]

\* the task has returned
CleanupReturn ==
    /\ cleanup.pc = "done"
    /\ cleanup' = IdleCleanup
    /\ UNCHANGED aged

\* a staff decision saved with save(): auto_now sets updated_at to now
StaffSave(id, status) ==
    /\ \E r \in aged : r.id = id /\ r.status # status
    /\ aged' = {IF r.id = id THEN [r EXCEPT !.status = status, !.updated = 0] ELSE r : r \in aged}
    /\ UNCHANGED cleanup

\* admin.py reject_submissions: QuerySet.update() of the pending rows, which
\* leaves updated_at as it was
BulkReject(ids) ==
    /\ \E r \in aged : r.id \in ids /\ r.status = "pending"
    /\ aged' = {IF r.id \in ids /\ r.status = "pending"
                THEN [r EXCEPT !.status = "rejected"] ELSE r : r \in aged}
    /\ UNCHANGED cleanup

CleanupIdle == aged = {} /\ cleanup = IdleCleanup

CleanupInit ==
    /\ aged \in {{r1, r2} : r1 \in AgedRows(1), r2 \in AgedRows(2)}
    /\ cleanup = IdleCleanup

NextCleanup ==
    \/ CleanupCount /\ UNCHANGED notClean
    \/ CleanupDelete /\ UNCHANGED notClean
    \/ CleanupReturn /\ UNCHANGED notClean
    \/ (\E id \in {1, 2}, status \in {"approved", "rejected"} : StaffSave(id, status))
            /\ UNCHANGED notClean
    \/ (\E ids \in SUBSET {1, 2} : BulkReject(ids)) /\ UNCHANGED notClean

(***************************************************************************)
(* api/views.py: the watchlist endpoints                                   *)
(***************************************************************************)
MaxWatchIds == 3

\* influencer ids of the influencer table
InfluencerIds == {1, 2}

\* influencer_id of a request: absent, of a row, or of no row
RequestedInfluencerIds == {0, 1, 2, 9}

NoResponse == [status |-> 0, watchlist_id |-> 0]

IdleWreq == [op |-> "idle", pc |-> "idle", user |-> "", influencer |-> 0, target |-> 0,
             existing |-> 0, resp |-> NoResponse]

\* Watchlist.objects.filter(user=..., influencer_id=...)
watch_rows(rows, user, influencer) ==
    {r \in rows : r.user = user /\ r.influencer = influencer}

\* variant for C11: a table without the constraint
violates_unique_never(rows, user, influencer) == FALSE

\* Watchlist.Meta.unique_together = ('user', 'influencer'): whether an insert
\* of the pair is refused
violates_unique(rows, user, influencer) == watch_rows(rows, user, influencer) # {}

\* variant for C13: the lookup by id alone
watch_get_any_owner(rows, watchlist_id, user) == {r \in rows : r.id = watchlist_id}

\* Watchlist.objects.get(id=watchlist_id, user=request.user)
watch_get(rows, watchlist_id, user) ==
    {r \in rows : r.id = watchlist_id /\ r.user = user}

WatchIdle ==
    /\ watch = {}
    /\ wseq = 0
    /\ wreq = [w \in Workers |-> IdleWreq]

\* watchlist_api POST up to the duplicate check: a missing influencer_id is
\* answered 400, an unknown influencer 404, an existing entry 400 with its id
WatchAddCheck(w, user, influencer_id) ==
    /\ wreq[w].op = "idle"
    /\ wseq < MaxWatchIds
    /\ LET req == [IdleWreq EXCEPT !.op = "add", !.user = user, !.influencer = influencer_id]
           existing == watch_rows(watch, user, influencer_id)
       IN wreq' = [wreq EXCEPT ![w] =
                     IF influencer_id = 0
                     THEN [req EXCEPT !.pc = "done", !.resp = [status |-> 400, watchlist_id |-> 0]]
                     ELSE IF influencer_id \notin InfluencerIds
                     THEN [req EXCEPT !.pc = "done", !.resp = [status |-> 404, watchlist_id |-> 0]]
                     ELSE IF existing # {}
                     THEN LET row == CHOOSE r \in existing : TRUE
                          IN [req EXCEPT !.pc = "done", !.existing = row.id,
                                         !.resp = [status |-> 400, watchlist_id |-> row.id]]
                     ELSE [req EXCEPT !.pc = "create"]]
    /\ UNCHANGED <<watch, wseq>>

\* watchlist_api POST, Watchlist.objects.create: the row is inserted and 201
\* answered, or the insert is refused and except Exception answers 500
WatchAddCreate(w) ==
    /\ wreq[w].pc = "create"
    /\ IF violates_unique(watch, wreq[w].user, wreq[w].influencer)
       THEN /\ wreq' = [wreq EXCEPT ![w] =
                          [@ EXCEPT !.pc = "done", !.resp = [status |-> 500, watchlist_id |-> 0]]]
            /\ UNCHANGED <<watch, wseq>>
       ELSE /\ wseq' = wseq + 1
            /\ watch' = watch \cup {[id |-> wseq + 1, user |-> wreq[w].user,
                                     influencer |-> wreq[w].influencer]}
            /\ wreq' = [wreq EXCEPT ![w] =
                          [@ EXCEPT !.pc = "done",
                                    !.resp = [status |-> 201, watchlist_id |-> wseq + 1]]]

\* watchlist_remove_api: get by id and user, then delete
WatchRemove(w, user, watchlist_id) ==
    /\ wreq[w].op = "idle"
    /\ LET req == [IdleWreq EXCEPT !.op = "remove", !.pc = "done", !.user = user,
                                   !.target = watchlist_id]
           found == watch_get(watch, watchlist_id, user)
       IN /\ watch' = watch \ found
          /\ wreq' = [wreq EXCEPT ![w] =
                        [req EXCEPT !.resp = [status |-> IF found # {} THEN 200 ELSE 404,
                                              watchlist_id |-> 0]]]
    /\ UNCHANGED wseq

\* the response is sent
WatchRespond(w) ==
    /\ wreq[w].pc = "done"
    /\ wreq' = [wreq EXCEPT ![w] = IdleWreq]
    /\ UNCHANGED <<watch, wseq>>

NextWatch ==
    \/ (\E w \in Workers, user \in Users, influencer_id \in RequestedInfluencerIds :
            WatchAddCheck(w, user, influencer_id)) /\ UNCHANGED notWatch
    \/ (\E w \in Workers : WatchAddCreate(w)) /\ UNCHANGED notWatch
    \/ (\E w \in Workers, user \in Users, watchlist_id \in 1..MaxWatchIds :
            WatchRemove(w, user, watchlist_id)) /\ UNCHANGED notWatch
    \/ (\E w \in Workers : WatchRespond(w)) /\ UNCHANGED notWatch

(***************************************************************************)
(* dashboard/services/notifications.py and the notification endpoints of   *)
(* dashboard/api_views.py.  Timestamps are ages in hours before now; a     *)
(* notification id "call-7" is the pair <<"call", 7>>.                     *)
(***************************************************************************)
MaxEvents == 101
MARK_ALL_LIMIT == 100
UNREAD_HOURS == 24

\* seq[:limit]
Take(seq, limit) == SubSeq(seq, 1, Min(limit, Len(seq)))

\* NotificationRead.objects.filter(user=user).values_list('notification_id')
read_notification_ids(rows, user) ==
    {row[2] : row \in {r \in BagToSet(rows) : r[1] = user}}

\* variant for C14: the status of a submission is not looked at
submission_unread_any_status(item, read_ids) ==
    item.age <= UNREAD_HOURS /\ item.id \notin read_ids

\* is_unread of a submission event
submission_unread(item, read_ids) ==
    (item.age <= UNREAD_HOURS /\ item.status \in {"approved", "rejected"})
        /\ item.id \notin read_ids

\* is_unread of a signal event
call_unread(item, read_ids) ==
    item.age <= UNREAD_HOURS /\ item.id \notin read_ids

\* notifications.sort(key=timestamp, reverse=True) of the signal items followed
\* by the submission items, each already in that order.  The sort is stable:
\* of two items of one timestamp the signal item comes first.
sort_by_timestamp(a, b) ==
    LET posA(i) == i + Cardinality({j \in DOMAIN b : b[j].age < a[i].age})
        posB(j) == j + Cardinality({i \in DOMAIN a : a[i].age <= b[j].age})
    IN IF b = <<>> THEN a
       ELSE IF a = <<>> THEN b
       ELSE [k \in 1..(Len(a) + Len(b)) |->
                IF \E i \in DOMAIN a : posA(i) = k
                THEN a[CHOOSE i \in DOMAIN a : posA(i) = k]
                ELSE b[CHOOSE j \in DOMAIN b : posB(j) = k]]

build_user_notifications(user, limit, call_rows, submission_rows, watch_rows_, read_rows) ==
    LET read_ids == read_notification_ids(read_rows, user)
        watchlist_influencer_ids == {r.influencer : r \in {x \in watch_rows_ : x.user = user}}
        trade_calls == Take(SelectSeq(call_rows,
                                LAMBDA c : c.status = "True"
                                           /\ c.influencer \in watchlist_influencer_ids), limit)
        submissions == Take(SelectSeq(submission_rows,
                                LAMBDA x : x.submitted_by = user), limit)
        signal_items == [i \in DOMAIN trade_calls |->
                            LET it == [id |-> <<"call", trade_calls[i].id>>,
                                       category |-> "signals", status |-> "True",
                                       age |-> trade_calls[i].age]
                            IN it @@ [unread |-> call_unread(it, read_ids)]]
        submission_items == [i \in DOMAIN submissions |->
                            LET it == [id |-> <<"submission", submissions[i].id>>,
                                       category |-> "submissions",
                                       status |-> submissions[i].status,
                                       age |-> submissions[i].age]
                            IN it @@ [unread |-> submission_unread(it, read_ids)]]
    IN Take(sort_by_timestamp(signal_items, submission_items), limit)

\* variant for C15: an insert that is never refused
read_conflict_never(rows, user, notification_id) == FALSE

\* NotificationRead.Meta.unique_together = ('user', 'notification_id'): whether
\* an insert of the pair is refused
read_conflict(rows, user, notification_id) ==
    BagIn(<<user, notification_id>>, rows)

IdleNreq == [pc |-> "idle", user |-> "", notification_id |-> <<>>, status |-> 0,
             was_new |-> FALSE]

NoFeed == [user |-> "", limit |-> 0, items |-> <<>>]

NotifyIdle ==
    /\ calls = <<>>
    /\ nsubs = <<>>
    /\ reads = EmptyBag
    /\ nreq = [w \in Workers |-> IdleNreq]
    /\ feed = NoFeed

\* the notification_id values of a mark-read request: absent, of a signal, of
\* a submission
NotificationIds == {<<>>, <<"call", 1>>, <<"submission", 1>>}

\* the limit values of a feed request: the default and others
Limits == {1, 15}
ManyLimits == {15, MARK_ALL_LIMIT, MaxEvents}

CallScenarios ==
    {<<>>}
    \cup {<<[id |-> 1, influencer |-> 1, age |-> a, status |-> "True"]>> :
             a \in {0, UNREAD_HOURS, UNREAD_HOURS + 1}}
    \cup {<<[id |-> 2, influencer |-> 2, age |-> 0, status |-> "True"],
            [id |-> 1, influencer |-> 1, age |-> 1, status |-> "False"]>>}

\* many calls of this hour by a watched influencer
ManyCallScenarios ==
    {[i \in 1..n |-> [id |-> i, influencer |-> 1, age |-> 0, status |-> "True"]] :
        n \in {MaxEvents - 1, MaxEvents}}

SubmissionScenarios ==
    {<<>>}
    \cup {<<[id |-> 1, submitted_by |-> "alice", age |-> 0, status |-> st]>> :
             st \in {"pending", "approved", "rejected"}}
    \cup {<<[id |-> 1, submitted_by |-> "alice", age |-> UNREAD_HOURS + 1, status |-> "approved"]>>}
    \cup {<<[id |-> 2, submitted_by |-> "staff1", age |-> 0, status |-> "approved"],
            [id |-> 1, submitted_by |-> "alice", age |-> UNREAD_HOURS, status |-> "pending"]>>}

NotifyInit(call_scenarios) ==
    /\ calls \in call_scenarios
    /\ nsubs \in SubmissionScenarios
    /\ watch = {[id |-> 1, user |-> "alice", influencer |-> 1]}
    /\ wseq = 1
    /\ wreq = [w \in Workers |-> IdleWreq]
    /\ reads = EmptyBag
    /\ nreq = [w \in Workers |-> IdleNreq]
    /\ feed = NoFeed

\* user_notifications_api
UserNotifications(user, limit) ==
    /\ feed' = [user |-> user, limit |-> limit,
                items |-> build_user_notifications(user, limit, calls, nsubs, watch, reads)]
    /\ UNCHANGED <<calls, nsubs, reads, nreq, watch>>

\* mark_notification_read_api up to the lookup of get_or_create: a missing id
\* is answered 400, a found record success with was_new False
MarkReadGet(w, user, notification_id) ==
    /\ nreq[w].pc \in {"idle", "done"}
    /\ LET req == [IdleNreq EXCEPT !.user = user, !.notification_id = notification_id]
       IN nreq' = [nreq EXCEPT ![w] =
                     IF notification_id = <<>>
                     THEN [req EXCEPT !.pc = "done", !.status = 400]
                     ELSE IF BagIn(<<user, notification_id>>, reads)
                     THEN [req EXCEPT !.pc = "done", !.status = 200]
                     ELSE [req EXCEPT !.pc = "create"]]
    /\ UNCHANGED <<calls, nsubs, reads, feed, watch>>

\* get_or_create: the insert, or on a refused insert the lookup again
MarkReadCreate(w) ==
    /\ nreq[w].pc = "create"
    /\ IF read_conflict(reads, nreq[w].user, nreq[w].notification_id)
       THEN /\ nreq' = [nreq EXCEPT ![w] = [@ EXCEPT !.pc = "done", !.status = 200]]
            /\ UNCHANGED reads
       ELSE /\ reads' = reads (+) SetToBag({<<nreq[w].user, nreq[w].notification_id>>})
            /\ nreq' = [nreq EXCEPT ![w] =
                          [@ EXCEPT !.pc = "done", !.status = 200, !.was_new = TRUE]]
    /\ UNCHANGED <<calls, nsubs, feed, watch>>

\* mark_all_notifications_read_api: bulk_create(ignore_conflicts=True) of a
\* record for each unread item of the feed of limit 100
MarkAllRead(user) ==
    /\ \E notifications \in {build_user_notifications(user, MARK_ALL_LIMIT,
                                                       calls, nsubs, watch, reads)} :
          LET read_records == {<<user, notifications[i].id>> :
                                  i \in {j \in DOMAIN notifications : notifications[j].unread}}
          IN reads' = reads (+) SetToBag({r \in read_records :
                                             ~read_conflict(reads, r[1], r[2])})
    /\ UNCHANGED <<calls, nsubs, nreq, feed, watch>>

NextNotify ==
    \/ (\E user \in Users, limit \in Limits : UserNotifications(user, limit))
            /\ UNCHANGED notNotify
    \/ (\E w \in Workers, user \in Users, notification_id \in NotificationIds :
            MarkReadGet(w, user, notification_id)) /\ UNCHANGED notNotify
    \/ (\E w \in Workers : MarkReadCreate(w)) /\ UNCHANGED notNotify
    \/ (\E user \in Users : MarkAllRead(user)) /\ UNCHANGED notNotify

\* the feed and mark-all-read alone
NextMarkAll ==
    \/ (\E user \in Users, limit \in ManyLimits : UserNotifications(user, limit))
            /\ UNCHANGED notNotify
    \/ (\E user \in Users : MarkAllRead(user)) /\ UNCHANGED notNotify

(***************************************************************************)
(* authentication/views.py and authentication/telegram_auth.py.  An email  *)
(* "bob@x" is the pair <<"bob", "x">>, a missing one <<>>; a username      *)
(* "bob1" is the pair <<"bob", 1>>, and <<"bob", 0>> is "bob".             *)
(***************************************************************************)
MaxStamp == 2
MaxUsers == 3

SessionIds == {"s1", "s2"}

Emails == {<<>>, <<"bob", "x">>, <<"zed", "x">>}

Passwords == {"", "short", "password1", "password2"}

NoSession == [reset_user_id |-> None]

IdleAreq == [pc |-> "idle", api |-> FALSE, email |-> <<>>, password |-> "",
             username |-> <<>>, error |-> "", status |-> 0]

\* the users of the table at the start: passwords set, no Telegram account
StoredUsers ==
    {[id |-> 1, username |-> <<"bob", 0>>, email |-> <<"bob", "x">>,
      password |-> "password1", stamp |-> 0, telegram_id |-> None],
     [id |-> 2, username |-> <<"ann", 0>>, email |-> <<"ann", "x">>,
      password |-> "password1", stamp |-> 0, telegram_id |-> None]}

AuthIdle ==
    /\ users = {}
    /\ sessions = [s \in SessionIds |-> NoSession]
    /\ areq = [w \in Workers |-> IdleAreq]
    /\ aresp = [op |-> "none"]
    /\ bot_token = ""

\* the while loop of the views: the first of base, base1, base2, ... that no
\* user has
unique_username(rows, base) ==
    LET taken == {u.username : u \in rows}
    IN <<base, CHOOSE n \in 0..Cardinality(rows) :
                   /\ <<base, n>> \notin taken
                   /\ \A m \in 0..(n - 1) : <<base, m>> \in taken>>

\* User.objects.create_user and the row it inserts
created_user(rows, username, email, password, telegram_id) ==
    [id |-> Cardinality(rows) + 1, username |-> username, email |-> email,
     password |-> password, stamp |-> 0, telegram_id |-> telegram_id]

\* LoginView.post and api_login: the error of the response, "" on success,
\* and the user logged in
login_outcome(rows, email, password) ==
    LET found == {u \in rows : u.email = email}
    IN IF email = <<>> \/ password = ""
       THEN [error |-> "Email and password are required", user_id |-> None]
       ELSE IF found = {}
       THEN [error |-> "User with this email does not exist", user_id |-> None]
       ELSE IF Cardinality(found) > 1
       THEN [error |-> "MultipleObjectsReturned", user_id |-> None]
       ELSE LET user == CHOOSE u \in found : TRUE
            IN IF user.password = password
               THEN [error |-> "", user_id |-> user.id]
               ELSE [error |-> "Invalid credentials", user_id |-> None]

\* LoginView.post (login(request, user) on success) and api_login (tokens on
\* success): the response says who was logged in
LoginPost(email, password, api) ==
    /\ LET outcome == login_outcome(users, email, password)
       IN aresp' = [op |-> "login", api |-> api, error |-> outcome.error,
                    user_id |-> outcome.user_id]
    /\ UNCHANGED <<users, sessions, areq, bot_token>>

\* the links a reset GET is called with: a user id (0: not decodable or of no
\* user) and a token made for a user at a password stamp
ResetLinks == [uid : {0, 1, 2}, token : [uid : {1, 2}, stamp : 0..1]]

\* default_token_generator.check_token(user, token): the token was made for
\* that user and the password is the one of then
check_token(rows, uid, token) ==
    \E u \in rows : u.id = uid /\ token.uid = uid /\ token.stamp = u.stamp

\* variant for C17: the marker stays in the session
del_reset_user_id_kept(session) == session

\* del request.session['reset_user_id']
del_reset_user_id(session) == [session EXCEPT !.reset_user_id = None]

\* ResetPasswordView.get
ResetGet(s, link) ==
    /\ LET valid == (\E u \in users : u.id = link.uid) /\ check_token(users, link.uid, link.token)
       IN /\ sessions' = IF valid THEN [sessions EXCEPT ![s].reset_user_id = link.uid]
                         ELSE sessions
          /\ aresp' = [op |-> "reset_get", session |-> s, uid |-> link.uid,
                       token |-> link.token,
                       error |-> IF valid THEN ""
                                 ELSE IF \E u \in users : u.id = link.uid
                                 THEN "Invalid or expired reset link"
                                 ELSE "Invalid reset link"]
    /\ UNCHANGED <<users, areq, bot_token>>

\* the password and its confirmation of a reset POST
ResetForms == {<<"", "">>, <<"short", "short">>, <<"password2", "password1">>,
               <<"password2", "password2">>}

\* ResetPasswordView.post
ResetPost(s, password, confirm_password) ==
    /\ LET user_id == sessions[s].reset_user_id
           error == IF user_id = None
                    THEN "Invalid session. Please request a new reset link."
                    ELSE IF ~\E u \in users : u.id = user_id
                    THEN "Invalid user. Please request a new reset link."
                    ELSE IF password = "" \/ confirm_password = ""
                    THEN "All fields are required"
                    ELSE IF password # confirm_password
                    THEN "Passwords do not match"
                    ELSE IF Len(password) < 8
                    THEN "Password must be at least 8 characters long"
                    ELSE ""
       IN /\ error = "" => \A u \in users : u.id = user_id => u.stamp < MaxStamp
          /\ aresp' = [op |-> "reset_post", session |-> s, error |-> error]
          /\ IF error = ""
             THEN /\ users' = {IF u.id = user_id
                               THEN [u EXCEPT !.password = password, !.stamp = @ + 1]
                               ELSE u : u \in users}
                  /\ sessions' = [sessions EXCEPT ![s] = del_reset_user_id(@)]
             ELSE UNCHANGED <<users, sessions>>
    /\ UNCHANGED <<areq, bot_token>>

TELEGRAM_MAX_AGE == 86400

\* hmac.new(sha256(bot_token), data_check_string, sha256).hexdigest(): a value
\* that only the same token and the same fields give
calculated_hash(token, auth_date, id) == <<token, auth_date, id>>

\* the fields of a callback: auth_date missing, not a number or a timestamp;
\* id missing or given; hash missing, made with the bot token or with another
TelegramPayloads ==
    {[auth_date |-> d, id |-> i, hash |-> h] :
        d \in {[kind |-> "missing", value |-> 0], [kind |-> "text", value |-> 0],
               [kind |-> "int", value |-> 1]},
        i \in {None, 7},
        h \in {"missing", "of_bot_token", "of_other_token"}}

\* the hash field of a payload as a value of calculated_hash
hash_value(auth_data) ==
    IF auth_data.hash = "of_bot_token"
    THEN calculated_hash("secret", auth_data.auth_date, auth_data.id)
    ELSE calculated_hash("other", auth_data.auth_date, auth_data.id)

\* variant for C20: the hash is looked at before the age
verify_telegram_auth_hash_first(token, auth_data, current_timestamp) ==
    IF token = "" THEN "Telegram bot token not configured"
    ELSE IF auth_data.auth_date.kind = "missing" THEN "Missing auth_date"
    ELSE IF auth_data.auth_date.kind = "text" THEN "Invalid auth_date format"
    ELSE IF auth_data.hash = "missing" THEN "Missing hash"
    ELSE IF calculated_hash(token, auth_data.auth_date, auth_data.id) # hash_value(auth_data)
    THEN "Hash verification failed"
    ELSE IF current_timestamp - auth_data.auth_date.value > TELEGRAM_MAX_AGE
    THEN "Authentication data is too old"
    ELSE "Authentication verified"

\* TelegramAuth.verify_telegram_auth: the message it returns
verify_telegram_auth(token, auth_data, current_timestamp) ==
    IF token = "" THEN "Telegram bot token not configured"
    ELSE IF auth_data.auth_date.kind = "missing" THEN "Missing auth_date"
    ELSE IF auth_data.auth_date.kind = "text" THEN "Invalid auth_date format"
    ELSE IF current_timestamp - auth_data.auth_date.value > TELEGRAM_MAX_AGE
    THEN "Authentication data is too old"
    ELSE IF auth_data.hash = "missing" THEN "Missing hash"
    ELSE IF calculated_hash(token, auth_data.auth_date, auth_data.id) # hash_value(auth_data)
    THEN "Hash verification failed"
    ELSE "Authentication verified"

\* telegram_login with get_or_create_user: the user of the Telegram id, made
\* if there is none, is logged in, and the response says who; the error is
\* the message without its "Authentication failed: " in front
TelegramLogin(auth_data, current_timestamp) ==
    /\ LET message == verify_telegram_auth(bot_token, auth_data, current_timestamp)
           known == {u \in users : u.telegram_id = auth_data.id}
           user == IF known # {} THEN CHOOSE u \in known : TRUE
                   ELSE created_user(users, unique_username(users, "telegram_user_7"),
                                     <<>>, "", auth_data.id)
           error == IF /\ auth_data.auth_date.kind = "missing" /\ auth_data.id = None
                       /\ auth_data.hash = "missing"
                    THEN "No authentication data received"
                    ELSE IF message # "Authentication verified" THEN message
                    ELSE IF auth_data.id = None THEN "Missing Telegram ID"
                    ELSE ""
       IN /\ error = "" /\ known = {} => Cardinality(users) < MaxUsers
          /\ aresp' = [op |-> "telegram", auth_data |-> auth_data,
                       current_timestamp |-> current_timestamp, error |-> error,
                       user_id |-> IF error = "" THEN user.id ELSE None]
          /\ users' = IF error = "" THEN users \cup {user} ELSE users
    /\ UNCHANGED <<sessions, areq, bot_token>>

\* SignupView.post and api_register up to the check of the email: the web
\* form also compares the confirmation and the length of the password
RegisterCheck(w, api, email, password, confirm_password) ==
    /\ areq[w].pc = "idle"
    /\ Cardinality(users) < MaxUsers
    /\ LET req == [IdleAreq EXCEPT !.api = api, !.email = email, !.password = password]
           error == IF email = <<>> \/ password = ""
                    THEN "Email and password are required"
                    ELSE IF ~api /\ password # confirm_password
                    THEN "Passwords do not match"
                    ELSE IF ~api /\ Len(password) < 8
                    THEN "Password must be at least 8 characters long"
                    ELSE IF \E u \in users : u.email = email
                    THEN "User with this email already exists"
                    ELSE ""
       IN areq' = [areq EXCEPT ![w] =
                     IF error = "" THEN [req EXCEPT !.pc = "username"]
                     ELSE [req EXCEPT !.pc = "done", !.error = error,
                                      !.status = IF api THEN 400 ELSE 200]]
    /\ UNCHANGED <<users, sessions, aresp, bot_token>>

\* the username is derived from the local part of the email
RegisterUsername(w) ==
    /\ areq[w].pc = "username"
    /\ areq' = [areq EXCEPT ![w] =
                  [@ EXCEPT !.pc = "create",
                            !.username = unique_username(users, areq[w].email[1])]]
    /\ UNCHANGED <<users, sessions, aresp, bot_token>>

\* User.objects.create_user: auth_user.username is unique, and a refused
\* insert is an IntegrityError that neither view catches
RegisterCreate(w) ==
    /\ areq[w].pc = "create"
    /\ IF \E u \in users : u.username = areq[w].username
       THEN /\ areq' = [areq EXCEPT ![w] =
                          [@ EXCEPT !.pc = "done", !.error = "IntegrityError", !.status = 500]]
            /\ UNCHANGED users
       ELSE /\ users' = users \cup {created_user(users, areq[w].username, areq[w].email,
                                                 areq[w].password, None)}
            /\ areq' = [areq EXCEPT ![w] =
                          [@ EXCEPT !.pc = "done",
                                    !.status = IF areq[w].api THEN 201 ELSE 302]]
    /\ UNCHANGED <<sessions, aresp, bot_token>>

\* the response of a registration is sent
RegisterRespond(w) ==
    /\ areq[w].pc = "done"
    /\ areq' = [areq EXCEPT ![w] = IdleAreq]
    /\ UNCHANGED <<users, sessions, aresp, bot_token>>

AuthInit ==
    /\ users = StoredUsers
    /\ sessions = [s \in SessionIds |-> NoSession]
    /\ areq = [w \in Workers |-> IdleAreq]
    /\ aresp = [op |-> "none"]
    /\ bot_token \in {"", "secret"}

NextAuth ==
    \/ (\E email \in Emails, password \in Passwords, api \in BOOLEAN :
            LoginPost(email, password, api)) /\ UNCHANGED notAuth
    \/ (\E s \in SessionIds, link \in ResetLinks : ResetGet(s, link)) /\ UNCHANGED notAuth
    \/ (\E s \in SessionIds, form \in ResetForms : ResetPost(s, form[1], form[2]))
            /\ UNCHANGED notAuth
    \/ (\E auth_data \in TelegramPayloads, age \in {TELEGRAM_MAX_AGE, TELEGRAM_MAX_AGE + 1} :
            TelegramLogin(auth_data, auth_data.auth_date.value + age))
            /\ UNCHANGED notAuth

RegisterInit ==
    /\ users \in {{}, {[id |-> 1, username |-> <<"bob", 0>>, email |-> <<"bob", "y">>,
                        password |-> "password1", stamp |-> 0, telegram_id |-> None]}}
    /\ sessions = [s \in SessionIds |-> NoSession]
    /\ areq = [w \in Workers |-> IdleAreq]
    /\ aresp = [op |-> "none"]
    /\ bot_token = ""

NextRegister ==
    \/ (\E w \in Workers, api \in BOOLEAN, email \in Emails,
           form \in {<<"short", "short">>, <<"password1", "password1">>} :
            RegisterCheck(w, api, email, form[1], form[2])) /\ UNCHANGED notAuth
    \/ (\E w \in Workers : RegisterUsername(w)) /\ UNCHANGED notAuth
    \/ (\E w \in Workers : RegisterCreate(w)) /\ UNCHANGED notAuth
    \/ (\E w \in Workers : RegisterRespond(w)) /\ UNCHANGED notAuth

(***************************************************************************)
(* Specifications                                                          *)
(***************************************************************************)
\* the parts of the state a specification leaves at rest
FlowIdle ==
    /\ subs = <<>>
    /\ influencers = [u \in FlowURLs |-> 0]
    /\ queue = <<>>
    /\ wk = [w \in Workers |-> IdleWk]
    /\ enabled = TRUE
    /\ minFollowers = MIN_FOLLOWERS
    /\ ops = 0

RetryIdle == rt = [pc |-> "idle"]

\* the submission workflow
Init == FlowInit /\ ScoreIdle /\ RetryIdle /\ ManagerIdle /\ CleanupIdle /\ WatchIdle /\ NotifyIdle /\ AuthIdle

Spec == Init /\ [][Next]_vars

\* the Celery worker side
InitTask == TaskInit /\ ScoreIdle /\ RetryIdle /\ ManagerIdle /\ CleanupIdle /\ WatchIdle /\ NotifyIdle /\ AuthIdle

SpecTask == InitTask /\ [][NextTask]_vars

\* the synchronous service
InitSync == SyncInit /\ ScoreIdle /\ RetryIdle /\ ManagerIdle /\ CleanupIdle /\ WatchIdle /\ NotifyIdle /\ AuthIdle

SpecSync == InitSync /\ [][NextSync]_vars

\* the retrying decorator
InitRetry == FlowIdle /\ ScoreIdle /\ RetryIdle /\ ManagerIdle /\ CleanupIdle /\ WatchIdle /\ NotifyIdle /\ AuthIdle

SpecRetry == InitRetry /\ [][NextRetry]_vars

\* the async service's verification and scoring
InitScore == FlowIdle /\ RetryIdle /\ ManagerIdle /\ CleanupIdle /\ ScoreInit /\ WatchIdle /\ NotifyIdle /\ AuthIdle

SpecScore == InitScore /\ [][NextScore]_vars

\* scoring of given verification results, one Twitter submission at a time
InitGiven == FlowIdle /\ RetryIdle /\ ManagerIdle /\ CleanupIdle /\ ScoreIdle /\ WatchIdle /\ NotifyIdle /\ AuthIdle

SpecGiven == InitGiven /\ [][NextGiven]_vars

\* the watchlist endpoints
InitWatch == FlowIdle /\ ScoreIdle /\ RetryIdle /\ ManagerIdle /\ CleanupIdle /\ WatchIdle /\ NotifyIdle /\ AuthIdle

SpecWatch == InitWatch /\ [][NextWatch]_vars

\* the notification feed and its read records
InitNotify == FlowIdle /\ ScoreIdle /\ RetryIdle /\ ManagerIdle /\ CleanupIdle /\ NotifyInit(CallScenarios) /\ AuthIdle

SpecNotify == InitNotify /\ [][NextNotify]_vars

\* mark-all-read with more events than it reads
InitMarkAll == FlowIdle /\ ScoreIdle /\ RetryIdle /\ ManagerIdle /\ CleanupIdle /\ NotifyInit(ManyCallScenarios) /\ AuthIdle

SpecMarkAll == InitMarkAll /\ [][NextMarkAll]_vars

\* login, password reset and Telegram login
InitAuth == FlowIdle /\ ScoreIdle /\ RetryIdle /\ ManagerIdle /\ CleanupIdle /\ WatchIdle /\ NotifyIdle /\ AuthInit

SpecAuth == InitAuth /\ [][NextAuth]_vars

\* registration
InitRegister == FlowIdle /\ ScoreIdle /\ RetryIdle /\ ManagerIdle /\ CleanupIdle /\ WatchIdle /\ NotifyIdle /\ RegisterInit

SpecRegister == InitRegister /\ [][NextRegister]_vars

\* the scoped-resource variant of the retry logic
InitManager ==
    FlowIdle /\ ScoreIdle /\ RetryIdle /\ ManagerIdle /\ CleanupIdle /\ WatchIdle
    /\ NotifyIdle /\ AuthIdle

SpecManager == InitManager /\ [][NextManager]_vars

\* the weekly cleanup next to staff decisions
InitCleanup ==
    FlowIdle /\ ScoreIdle /\ RetryIdle /\ ManagerIdle /\ CleanupInit /\ WatchIdle
    /\ NotifyIdle /\ AuthIdle

SpecCleanup == InitCleanup /\ [][NextCleanup]_vars

(***************************************************************************)
(* Properties                                                              *)
(***************************************************************************)
\* C1: across every writer, a submission's status only ever changes from
\* pending (to approved or rejected); an approved or rejected submission keeps
\* its status.
C1_StatusOnlyLeavesPending ==
    [][\A i \in SubIds : subs'[i].status # subs[i].status => subs[i].status = "pending"]_vars

\* C2: a submission stored from mock or fallback data (mock_data, or a follower
\* count of 0) is approved only by a staff member's review of it, never by an
\* automated path.
C2_MockApprovedOnlyByStaff ==
    \A i \in SubIds :
        (subs[i].mock_data \/ subs[i].follower_count = 0) /\ subs[i].status = "approved"
            => is_staff(subs[i].reviewed_by) /\ ~subs[i].auto_approved

\* C3: in the synchronous service a payload that passes validation and has
\* followers = 0 or mock_data = true produces a row with status pending,
\* whatever the configured minimum-follower threshold (the row keeps the
\* payload's mock flag and its follower count as coerced).
C3_UnverifiedPayloadStaysPending ==
    \A i \in SubIds :
        (subs[i].follower_count = 0 \/ subs[i].mock_data) => subs[i].status = "pending"

\* a mock payload above the threshold and a live payload with 0 followers under
\* a threshold of 0 were both stored, and both are pending
C3_Witness ==
    /\ minFollowers = 0
    /\ Len(subs) = 2
    /\ subs[1].mock_data /\ subs[1].follower_count = 5000 /\ subs[1].status = "pending"
    /\ ~subs[2].mock_data /\ subs[2].follower_count = 0 /\ subs[2].status = "pending"

\* C4: no request made by an authenticated user who is not staff changes the
\* status of any submission.
C4_NonStaffNeverChangesStatus ==
    [][\A user \in Users :
          (/\ ~is_staff(user)
           /\ \/ \E sid \in SubIds : ProcessSubmissionApi(user, sid)
              \/ ProcessAutoApprovalsApi(user)
              \/ \E w \in Workers, payload \in FlowPayloads, db_ok \in BOOLEAN,
                    broker_up \in BOOLEAN : SyncCreate(w, user, payload, db_ok, broker_up))
              => \A i \in SubIds : subs'[i].status = subs[i].status]_vars

\* C6: the approval paths never leave two Influencer rows with the same URL.
C6_NoDuplicateInfluencer ==
    \A u \in FlowURLs : influencers[u] <= 1

\* C7: after an Admin Management approve or bulk-approve, an Influencer row
\* with the submission's URL exists for every submission the action moved to
\* approved.
C7_ApprovedHasInfluencer ==
    [][\A user \in Users, ids \in SUBSET SubIds :
          AMBulkApprove(user, ids)
              => \A i \in ids : subs[i].status = "pending" /\ subs'[i].status = "approved"
                                    => influencers'[subs'[i].url] > 0]_vars

\* C8: the async service's process_submission never propagates an exception to
\* its caller.
C8_ProcessSubmissionNeverRaises ==
    \A w \in Workers : wk[w].pc # "ps_raised"

\* C9: the retrying decorator raises only what the wrapped operation raised:
\* an error outside the transient set at once, or a transient error when the
\* last of the max_retries calls failed with it; a transient error before that
\* is followed by a close, a sleep and another call.
C9_TransientErrorIsRetried ==
    rt.pc = "raised" =>
        \/ rt.exc \in {"deadlock detected", "bad value"}
        \/ rt.exc \in ssl_errors /\ rt.calls = rt.max_retries

\* C10: the task body of one job executes at most 3 attempts in total.
C10_AtMostThreeAttempts ==
    \A w \in Workers : wk[w].op = "task" => wk[w].retries + 1 <= 3

\* C11: adding an influencer already on the user's watchlist creates no second
\* row and is answered with an error carrying the existing entry's id; there
\* is at most one watchlist row per (user, influencer) at every point.
C11_OneRowPerPair ==
    /\ [](\A r1, r2 \in watch :
             r1.user = r2.user /\ r1.influencer = r2.influencer => r1 = r2)
    /\ [][\A w \in Workers :
             wreq[w].op = "idle" /\ wreq'[w].op = "add" =>
                 \A r \in watch_rows(watch, wreq'[w].user, wreq'[w].influencer) :
                     /\ watch' = watch
                     /\ wreq'[w].pc = "done"
                     /\ wreq'[w].resp = [status |-> 400, watchlist_id |-> r.id]]_vars

\* a second add of the pair was refused with the id of the row that is there
C11_Witness ==
    \E w \in Workers :
        /\ wreq[w].op = "add" /\ wreq[w].existing # 0
        /\ watch_rows(watch, wreq[w].user, wreq[w].influencer) # {}

\* C12: two concurrent inserts of the same pair leave one row and neither
\* request ends in a server-error response caused by the uniqueness conflict.
C12_NoServerErrorOnConflict ==
    \A w \in Workers : wreq[w].op = "add" => wreq[w].resp.status # 500

\* C13: a watchlist entry is deleted only by a request of its owner; a DELETE
\* for another user's entry removes nothing and is answered not-found.
C13_DeleteOnlyByOwner ==
    [][/\ \A r \in watch \ watch' :
             \E w \in Workers : /\ wreq'[w].op = "remove" /\ wreq[w].op = "idle"
                                /\ wreq'[w].user = r.user /\ wreq'[w].target = r.id
                                /\ wreq'[w].resp.status = 200
       /\ \A w \in Workers :
             (/\ wreq[w].op = "idle" /\ wreq'[w].op = "remove"
              /\ \E r \in watch : r.id = wreq'[w].target /\ r.user # wreq'[w].user)
                 => watch' = watch /\ wreq'[w].resp.status = 404]_vars

\* a DELETE for another user's entry was answered not-found and the entry is there
C13_Witness ==
    \E w \in Workers :
        /\ wreq[w].op = "remove" /\ wreq[w].resp.status = 404
        /\ \E r \in watch : r.id = wreq[w].target /\ r.user # wreq[w].user

\* C14: in every feed that is built, an item is flagged unread only if its
\* timestamp lies within the last 24 hours, a submission event among them only
\* with status approved or rejected, and the user has no read record for its
\* id; a pending submission event is never unread.
C14_UnreadOnlyIfRecentDecidedUnseen ==
    [][feed' # feed =>
          \A i \in DOMAIN feed'.items :
              LET item == feed'.items[i]
              IN item.unread =>
                    /\ item.age <= 24
                    /\ item.category = "submissions" => item.status \in {"approved", "rejected"}
                    /\ ~BagIn(<<feed'.user, item.id>>, reads)]_vars

\* a feed holds a pending submission event of this hour, without a read
\* record, and does not flag it
C14_Witness ==
    \E i \in DOMAIN feed.items :
        /\ feed.items[i].category = "submissions" /\ feed.items[i].status = "pending"
        /\ feed.items[i].age = 0 /\ ~feed.items[i].unread
        /\ ~BagIn(<<feed.user, feed.items[i].id>>, reads)

\* C15: marking one notification id read is idempotent: there is never more
\* than one read record per (user, id) and exactly one once a call for it has
\* been answered, every call with an id reports success, and a feed built
\* afterwards shows the id as not unread.
C15_MarkReadIdempotent ==
    /\ [](/\ \A row \in BagToSet(reads) : CopiesIn(row, reads) = 1
          /\ \A w \in Workers :
                nreq[w].pc = "done" /\ nreq[w].notification_id # <<>> =>
                    /\ nreq[w].status = 200
                    /\ CopiesIn(<<nreq[w].user, nreq[w].notification_id>>, reads) = 1)
    /\ [][feed' # feed =>
             \A i \in DOMAIN feed'.items :
                 BagIn(<<feed'.user, feed'.items[i].id>>, reads) => ~feed'.items[i].unread]_vars

\* a repeated mark-read call was answered success, and a feed shows the id,
\* an event of this hour, as not unread
C15_Witness ==
    \E w \in Workers :
        /\ nreq[w].pc = "done" /\ nreq[w].status = 200 /\ ~nreq[w].was_new
        /\ feed.user = nreq[w].user
        /\ \E i \in DOMAIN feed.items :
              /\ feed.items[i].id = nreq[w].notification_id
              /\ feed.items[i].age = 0 /\ feed.items[i].status # "pending"
              /\ ~feed.items[i].unread

\* C16: a feed built for the user right after a mark-all-read call holds no
\* item flagged unread, for any feed limit and any number of unread events.
C16_MarkAllLeavesNothingUnread ==
    [][\A user \in Users :
          MarkAllRead(user) =>
              \A limit \in ManyLimits :
                  \A after \in {build_user_notifications(user, limit,
                                                         calls', nsubs', watch', reads')} :
                      \A i \in DOMAIN after : ~after[i].unread]_vars

\* C17: a reset POST changes a password only in a session whose marker was set
\* by an earlier GET with a token/uid pair that validated, and the password
\* changed is that user's; a successful reset clears the marker, and a POST in
\* a session without marker is rejected and changes nothing.
C17_ResetOnlyAfterValidatedGet ==
    /\ [][\A s \in SessionIds :
             sessions'[s].reset_user_id \notin {None, sessions[s].reset_user_id} =>
                 /\ aresp'.op = "reset_get" /\ aresp'.session = s
                 /\ aresp'.uid = sessions'[s].reset_user_id
                 /\ check_token(users, aresp'.uid, aresp'.token)]_vars
    /\ [][\A u \in users, v \in users' :
             v.id = u.id /\ v.password # u.password =>
                 /\ aresp'.op = "reset_post" /\ aresp'.error = ""
                 /\ sessions[aresp'.session].reset_user_id = u.id
                 /\ sessions'[aresp'.session].reset_user_id = None]_vars
    /\ [][\A s \in SessionIds, form \in ResetForms :
             ResetPost(s, form[1], form[2]) /\ sessions[s].reset_user_id = None =>
                 users' = users /\ aresp'.error # ""]_vars

\* a POST in a session with a validated marker changed the password and
\* cleared the marker
C17_Witness ==
    /\ aresp.op = "reset_post" /\ aresp.error = ""
    /\ sessions[aresp.session].reset_user_id = None
    /\ \E u \in users : u.stamp > 0 /\ u.password = "password2"

\* C18: the response to a login with an email of no user equals the response
\* to a login with a registered email and a wrong password.
C18_LoginFailuresAlike ==
    \A unknown \in Emails \ {<<>>}, known \in Emails \ {<<>>}, password \in Passwords \ {""} :
        (/\ ~\E u \in users : u.email = unknown
         /\ \E u \in users : u.email = known /\ u.password # password)
            => login_outcome(users, unknown, password).error
                   = login_outcome(users, known, password).error

\* C19: no two users have one registered email.
C19_OneUserPerEmail ==
    \A u, v \in users : u.email = v.email /\ u.email # <<>> => u = v

\* C20 as stated: a payload older than 86400 seconds is rejected with the
\* too-old reason, whatever its hash.
C20_StaleRejectedAsTooOld ==
    (/\ aresp.op = "telegram"
     /\ aresp.auth_data.auth_date.kind = "int"
     /\ aresp.current_timestamp - aresp.auth_data.auth_date.value > 86400)
        => aresp.error = "Authentication data is too old"

\* C20, amended: a payload older than 86400 seconds never results in a login,
\* and it is rejected with the too-old reason whenever a bot token is
\* configured; without one the reason is that the token is not configured.
C20_StaleNeverLogsIn ==
    (/\ aresp.op = "telegram"
     /\ aresp.auth_data.auth_date.kind = "int"
     /\ aresp.current_timestamp - aresp.auth_data.auth_date.value > 86400)
        => /\ aresp.error # "" /\ aresp.user_id = None
           /\ bot_token # "" => aresp.error = "Authentication data is too old"
           /\ bot_token = "" => aresp.error = "Telegram bot token not configured"

\* a stale payload with a hash made with the bot token was rejected as too old
C20_Witness ==
    /\ aresp.op = "telegram"
    /\ aresp.auth_data.auth_date.kind = "int"
    /\ aresp.current_timestamp - aresp.auth_data.auth_date.value > 86400
    /\ aresp.auth_data.hash = "of_bot_token" /\ bot_token = "secret"
    /\ aresp.error = "Authentication data is too old"

\* C27: the verification result a submission is scored with carries the
\* confidence score computed from that submission's own follower count, also
\* when the result comes from the cache.
C27_ConfidenceOfOwnFollowerCount ==
    (last.done /\ cfg.token /\ last.ver.is_valid) =>
        last.ver.confidence_score = calculate_confidence_score(last.ver, last.follower_count)

\* C28: the follower_accuracy component of the async score is 0 whenever the
\* submitted or the actual follower count is exactly 0.
C28_ZeroFollowersScoreZero ==
    (last.done /\ last.ver.is_valid
        /\ (last.follower_count = 0 \/ last.ver.actual_followers = 0)) =>
        calculate_follower_accuracy_score(last.follower_count, last.ver) = 0

\* the verification result of the gating example, whatever the verified name
IsGatingExample(run) ==
    /\ run.done /\ run.follower_count = 5000
    /\ run.ver.is_valid /\ run.ver.confidence_score = 80
    /\ run.ver.actual_followers = 5000 /\ run.ver.account_age_days = 800
    /\ run.ver.is_verified /\ run.ver.engagement_rate = 40

\* C21 as stated: for the gating example (Twitter, submitted 5000, valid,
\* confidence 80, actual 5000, age 800 days, verified, engagement 4.0) the
\* score exceeds 70 and the submission is approved, for every submitter history,
\* profile URL and claimed channel name.
C21_AlwaysApproved ==
    IsGatingExample(last) => (last.score > 70 /\ last.approved)

\* C21 amended: for the gating example the score is 90 minus the risk penalties
\* (20 for more than 3 recent submissions, 15 for a suspicious URL, 10 for a name
\* that does not overlap the verified name), and the submission is approved
\* exactly when that score is at least 70.
C21_ScoreIsNinetyLessPenalties ==
    [][\A verification \in {last'.ver}, channel_name \in ChannelNames, url \in URLs,
          recent_submissions \in {1, 4} :
          (/\ ScoreGiven(verification, 5000, channel_name, url, recent_submissions)
           /\ IsGatingExample(last'))
          => LET penalty == (IF recent_submissions > 3 THEN 20 ELSE 0)
                            + (IF url.suspicious THEN 15 ELSE 0)
                            + (IF verification.actual_name # <<>>
                                  /\ channel_name = <<"x">> THEN 10 ELSE 0)
             IN /\ last'.score = 90 - penalty
                /\ last'.approved = (last'.score >= 70)
                /\ (penalty = 0 => last'.score > 70 /\ last'.approved)]_vars

\* the gating example scored without any penalty: 90, approved
C21_Witness ==
    IsGatingExample(last) /\ last.score = 90 /\ last.approved /\ last.status = "approved"

\* C22: a submission the synchronous service stored as pending for manual
\* review stays pending while only auto-approval jobs run: no step of a job
\* changes its status to approved or rejected.
C22_ManualReviewStaysPending ==
    [][\A i \in SubIds :
          (subs[i].status = "pending" /\ subs[i].rejection_reason = "manual_review")
          => subs'[i].status = "pending"]_vars

\* C23: when an async run overlaps another decision on the same submission, the
\* run's save of a copy loaded before the other actor's decision (the copy's
\* status or reviewer differs from the stored row's) never changes the stored
\* status or reviewer.
C23_NoStaleOverwrite ==
    [][\A w \in Workers :
          (/\ wk[w].pc \in {"ps_update", "ps_handler"}
           /\ wk'[w] # wk[w]
           /\ wk[w].sid \in SubIds
           /\ \/ subs[wk[w].sid].status # wk[w].row.status
              \/ subs[wk[w].sid].reviewed_by # wk[w].row.reviewed_by)
          => /\ subs'[wk[w].sid].status = subs[wk[w].sid].status
             /\ subs'[wk[w].sid].reviewed_by = subs[wk[w].sid].reviewed_by]_vars

\* C24: whenever no request or task is in progress, every approved submission
\* has an Influencer row with its URL, whichever operation approved it.
C24_ApprovedAtRestHasInfluencer ==
    (\A w \in Workers : wk[w].op = "idle") =>
        \A i \in SubIds : subs[i].status = "approved" => influencers[subs[i].url] > 0

\* C25: whenever process_submission ends with the failure result flagged
\* requires_manual_review, the submission object of that run is still pending:
\* the run neither approved nor rejected it.
C25_FailedRunLeavesPending ==
    \A w \in Workers : wk[w].pc = "ps_failed" => wk[w].row.status = "pending"

\* C26 as stated: with the flag on, the creation of a pending submission adds
\* exactly one job to the queue; the creation of an approved or rejected one, a
\* creation with the flag off, and a later save of an existing submission add
\* none.
C26_ExactlyOneJobPerPendingCreate ==
    [][/\ Len(subs') = Len(subs) + 1 =>
            Len(queue') - Len(queue) =
                IF enabled /\ subs'[Len(subs')].status = "pending" THEN 1 ELSE 0
       /\ (Len(subs') = Len(subs) /\ subs' # subs) => queue' = queue]_vars

\* C26 amended: the creation of a submission adds one job for the new id when
\* the flag is on, the new row is pending and apply_async succeeds, and no job
\* otherwise (a failure to enqueue is logged only); a later save of an existing
\* submission adds none.
C26_OneJobWhenEnqueueSucceeds ==
    [][/\ \A w \in Workers, user \in Users, payload \in FlowPayloads, db_ok \in BOOLEAN,
             broker_up \in BOOLEAN :
            (Len(subs') = Len(subs) + 1 /\ SyncCreate(w, user, payload, db_ok, broker_up))
            => queue' = IF enabled /\ subs'[Len(subs')].status = "pending" /\ broker_up
                        THEN Append(queue, [sid |-> Len(subs'), retries |-> 0])
                        ELSE queue
       /\ (Len(subs') = Len(subs) /\ subs' # subs) => queue' = queue]_vars

\* the first request created a pending submission with the flag on, and its
\* job is the only one queued
C26_Witness ==
    /\ enabled /\ ops = 1
    /\ \E i \in SubIds : /\ subs[i].status = "pending"
                         /\ subs[i].rejection_reason = "manual_review"
                         /\ queue = <<[sid |-> i, retries |-> 0]>>

\* C29: on exit the manager classifies an OperationalError as transient for
\* exactly the messages that the retrying decorator treats as transient.
C29_ManagerMatchesLikeDecorator ==
    (mgr.pc = "exited" /\ mgr.kind = "OperationalError") =>
        (mgr.matched <=> mgr.exc \in ssl_errors)

\* C30: the cleanup deletes exactly the rows that are rejected and whose last
\* update is more than 90 days old; a row it deletes is never pending or
\* approved and was created more than 90 days ago; no other step of the task
\* and no staff decision deletes a row.
C30_DeletesExactlyOldRejections ==
    [][/\ (cleanup.pc = "delete" /\ cleanup'.pc = "done") =>
            /\ aged' \subseteq aged
            /\ \A r \in aged : r \notin aged' <=> (r.status = "rejected" /\ r.updated > 90)
            /\ \A r \in aged \ aged' :
                  r.status \notin {"pending", "approved"} /\ r.created > 90
       /\ ~(cleanup.pc = "delete" /\ cleanup'.pc = "done") =>
            {r.id : r \in aged'} = {r.id : r \in aged}]_vars

\* a run that deleted a rejected row last updated 91 days ago and kept a
\* rejected row last updated exactly 90 days ago
C30_Witness ==
    /\ cleanup.pc = "done" /\ cleanup.returned = 1
    /\ \E r \in cleanup.deleted : r.status = "rejected" /\ r.updated = 91
    /\ \E r \in aged : r.status = "rejected" /\ r.updated = 90

====
